---------------------------- MODULE Spec2Model ----------------------------
(***************************************************************************)
(* A model of the repository-analysis pipeline of github-analyzer:         *)
(* importance scoring and budgeted file selection (services/github.go),    *)
(* the completion call, the finding parsers and the summary                *)
(* (services/ai_analyzer.go) and the controller's performAnalysis          *)
(* (controllers/analyze.go).                                               *)
(*                                                                         *)
(* Text is modelled by TLA+ strings; a byte of a Go string is one          *)
(* character here (every text of the model is ASCII).                      *)
(***************************************************************************)
EXTENDS Integers, Sequences, FiniteSets, TLC

VARIABLES
    pc,            \* position of performAnalysis / of the function under check
    sc_path,       \* scorer: the path handed to calculateFileScore
    sc_out,        \* scorer: the (score, category) it returned, or NoValue
    sc_again,      \* scorer: what a second evaluation on sc_path returned, or NoValue
    sm_issues,     \* summary: the finding list handed to buildSummary
    sm_out,        \* summary: the AnalysisSummary of sm_issues, or NoValue
    sm_prev,       \* summary: the AnalysisSummary before the last finding was added
    sm_added,      \* summary: the finding added last, or NoValue
    pr_text,       \* parser: the completion text handed to parseIssues
    pr_shape,      \* parser: what pr_text was rendered from
    pr_out,        \* parser: what parseIssues returned (or that it panicked), or NoValue
    pl_in,         \* pipeline: the tree the provider holds and the maxFiles requested
    pl_cancel,     \* pipeline: "" or the position at which the context was cancelled
    pl_late,       \* pipeline: the network calls made under a cancelled context
    pl_maxFiles,   \* selector: maxFiles after its default
    pl_queue,      \* selector: the sorted candidates not yet visited
    pl_files,      \* selector: files
    pl_total,      \* selector: totalSize
    pl_skips,      \* selector: fetches so far that failed or differed from the tree
    pl_status,     \* pipeline: the status of the analysis record
    pl_resp,       \* pipeline: what the completion provider answered
    pl_ai,         \* pipeline: what Analyze returned
    pl_ret,        \* pipeline: what performAnalysis returned, or NoValue
    pl_up,         \* pipeline: the calls made to the tree and completion providers
    pl_seen,       \* selector: the candidates visited so far and what became of them
    bp_in,         \* prompt: the tree, the repository data, the README and the files
    cs_out,        \* prompt: the CodeStructure built from the tree, or NoValue
    cs_again,      \* prompt: the CodeStructure of a second build, or NoValue
    bp_out,        \* prompt: the text buildPrompt returned, or NoValue
    bp_again,      \* prompt: the text of a second call of buildPrompt, or NoValue
    qt_limit,      \* quota: api_quota_limit of the user
    qt_used,       \* quota: api_quota_used of the user
    qt_calls       \* quota: the UpdateAPIQuota calls under way, one per request

NoValue == "none"

vars == <<pc, sc_path, sc_out, sc_again, sm_issues, sm_out, sm_prev, sm_added,
          pr_text, pr_shape, pr_out, pl_in, pl_cancel, pl_late, pl_maxFiles,
          pl_queue, pl_files, pl_total, pl_skips, pl_status, pl_resp, pl_ai, pl_ret,
          pl_up, pl_seen, bp_in, cs_out, cs_again, bp_out, bp_again,
          qt_limit, qt_used, qt_calls>>

selVars == <<pl_maxFiles, pl_queue, pl_files, pl_total, pl_skips, pl_seen>>

aiVars == <<pl_resp, pl_ai>>

pipeVars == <<pl_in, pl_cancel, pl_late, selVars, pl_status, aiVars, pl_ret, pl_up>>

scoreVars == <<sc_path, sc_out, sc_again>>

summaryVars == <<sm_issues, sm_out, sm_prev, sm_added>>

ScoreIdle == sc_path = "" /\ sc_out = NoValue /\ sc_again = NoValue

parseVars == <<pr_text, pr_shape, pr_out>>

ParseIdle == pr_text = "" /\ pr_shape = NoValue /\ pr_out = NoValue

SummaryIdle == sm_issues = <<>> /\ sm_out = NoValue /\ sm_prev = NoValue /\ sm_added = NoValue

promptVars == <<bp_in, cs_out, cs_again, bp_out, bp_again>>

PromptIdle ==
    /\ bp_in = NoValue
    /\ cs_out = NoValue
    /\ cs_again = NoValue
    /\ bp_out = NoValue
    /\ bp_again = NoValue

quotaVars == <<qt_limit, qt_used, qt_calls>>

QuotaIdle == qt_limit = 0 /\ qt_used = 0 /\ qt_calls = <<>>

otherVars == <<scoreVars, summaryVars, parseVars, promptVars, quotaVars>>

\* no analysis record has been created
NoAnalysis == "none"

\* what the completion provider answers: the transport or the read of the body
\* failed, or a status, a body that is valid JSON or not, the texts of its
\* choices and the token count of its usage
Response(failed, status, valid, choices, tokens) ==
    [failed |-> failed, status |-> status, valid |-> valid,
     choices |-> choices, tokens |-> tokens]

\* no answer yet
NoResponse == Response(TRUE, -1, FALSE, <<>>, 0)

NoResult == [outcome |-> "none"]

\* the calls made to the two upstream providers (the tree listing and the
\* completion), and which of them failed
NoCalls == [tree |-> 0, completion |-> 0, failed |-> {}]

PipeIdle ==
    /\ pl_in = NoValue
    /\ pl_cancel = ""
    /\ pl_late = {}
    /\ pl_maxFiles = 0
    /\ pl_queue = <<>>
    /\ pl_files = <<>>
    /\ pl_total = 0
    /\ pl_skips = 0
    /\ pl_status = NoAnalysis
    /\ pl_resp = NoResponse
    /\ pl_ai = NoResult
    /\ pl_ret = NoValue
    /\ pl_up = NoCalls
    /\ pl_seen = <<>>

---------------------------------------------------------------------------
(* Go's strings and path/filepath helpers, on ASCII text.                  *)

At(s, i) == SubSeq(s, i, i)

Max(a, b) == IF a >= b THEN a ELSE b

Min(a, b) == IF a <= b THEN a ELSE b

\* strings.HasPrefix(s[from-1:], sub)
MatchAt(s, sub, from) ==
    /\ from >= 1
    /\ from + Len(sub) - 1 <= Len(s)
    /\ SubSeq(s, from, from + Len(sub) - 1) = sub

HasPrefix(s, prefix) == MatchAt(s, prefix, 1)

\* strings.Index(s[from-1:], sub), as a 1-based position in s; 0 when absent
IndexFrom(s, sub, from) ==
    LET hits == {i \in from..(Len(s) - Len(sub) + 1) : MatchAt(s, sub, i)}
    IN  IF hits = {} THEN 0 ELSE CHOOSE i \in hits : \A j \in hits : i <= j

Index(s, sub) == IndexFrom(s, sub, 1)

Contains(s, sub) == Index(s, sub) # 0

\* strings.Count(s, sub) for a one-character sub
Count(s, sub) == Cardinality({i \in 1..Len(s) : At(s, i) = sub})

UpperLetters == "ABCDEFGHIJKLMNOPQRSTUVWXYZ"

LowerLetters == "abcdefghijklmnopqrstuvwxyz"

LowerChar(c) ==
    LET i == Index(UpperLetters, c) IN IF c = "" \/ i = 0 THEN c ELSE At(LowerLetters, i)

UpperChar(c) ==
    LET i == Index(LowerLetters, c) IN IF c = "" \/ i = 0 THEN c ELSE At(UpperLetters, i)

\* strings.ToLower, by halves (the recursion stays shallow on long texts)
RECURSIVE ToLower(_)
ToLower(s) ==
    IF Len(s) <= 1 THEN LowerChar(s)
    ELSE ToLower(SubSeq(s, 1, Len(s) \div 2)) \o ToLower(SubSeq(s, Len(s) \div 2 + 1, Len(s)))

\* strings.ToUpper, by halves
RECURSIVE ToUpper(_)
ToUpper(s) ==
    IF Len(s) <= 1 THEN UpperChar(s)
    ELSE ToUpper(SubSeq(s, 1, Len(s) \div 2)) \o ToUpper(SubSeq(s, Len(s) \div 2 + 1, Len(s)))

\* position of the last "/" of path, 0 when it has none
LastSlash(path) ==
    LET hits == {i \in 1..Len(path) : At(path, i) = "/"}
    IN  IF hits = {} THEN 0 ELSE CHOOSE i \in hits : \A j \in hits : i >= j

\* filepath.Base, for the clean relative paths of a git tree
Base(path) == SubSeq(path, LastSlash(path) + 1, Len(path))

\* filepath.Dir, for the clean relative paths of a git tree
Dir(path) == IF LastSlash(path) = 0 THEN "." ELSE SubSeq(path, 1, LastSlash(path) - 1)

\* filepath.Ext: from the last "." of the last path element
Ext(path) ==
    LET name == Base(path)
        dots == {i \in 1..Len(name) : At(name, i) = "."}
    IN  IF dots = {} THEN ""
        ELSE SubSeq(name, CHOOSE i \in dots : \A j \in dots : i >= j, Len(name))

---------------------------------------------------------------------------
(* The Importance Scorer: services/github.go, calculateFileScore,          *)
(* isCodeFile, detectLanguage and scoreFiles.                              *)

entryPoints ==
    {"main.go", "main.py", "main.rs", "main.ts", "main.js",
     "app.go", "app.py", "app.ts", "app.js", "index.ts", "index.js",
     "server.go", "server.ts", "server.js", "cmd.go"}

configFiles ==
    {"go.mod", "go.sum", "package.json", "cargo.toml",
     "requirements.txt", "pyproject.toml", "dockerfile", "docker-compose.yml",
     "makefile", ".env.example", "config.yaml", "config.json", "tsconfig.json"}

importantDirs ==
    [cmd |-> 85, internal |-> 80, pkg |-> 75, src |-> 75, lib |-> 70,
     api |-> 80, handlers |-> 85, controllers |-> 85, services |-> 80,
     models |-> 80, routes |-> 75, middleware |-> 75, utils |-> 60,
     helpers |-> 60, core |-> 80]

extBoost ==
    (".go" :> 20) @@ (".py" :> 20) @@ (".rs" :> 20) @@ (".ts" :> 18) @@
    (".js" :> 15) @@ (".tsx" :> 18) @@ (".jsx" :> 15) @@ (".java" :> 18) @@
    (".c" :> 15) @@ (".cpp" :> 15) @@ (".h" :> 10) @@ (".rb" :> 15) @@
    (".php" :> 15) @@ (".sql" :> 12)

codeExtensions ==
    {".go", ".py", ".js", ".ts", ".jsx", ".tsx",
     ".rs", ".java", ".c", ".cpp", ".h", ".hpp",
     ".rb", ".php", ".swift", ".kt", ".scala",
     ".cs", ".vb", ".fs", ".clj", ".ex", ".exs",
     ".hs", ".ml", ".sql", ".sh", ".bash",
     ".yaml", ".yml", ".json", ".toml", ".xml"}

languages ==
    (".go" :> "Go") @@ (".py" :> "Python") @@ (".js" :> "JavaScript") @@
    (".ts" :> "TypeScript") @@ (".jsx" :> "React") @@
    (".tsx" :> "React TypeScript") @@ (".rs" :> "Rust") @@ (".java" :> "Java") @@
    (".c" :> "C") @@ (".cpp" :> "C++") @@ (".h" :> "C/C++ Header") @@
    (".rb" :> "Ruby") @@ (".php" :> "PHP") @@ (".swift" :> "Swift") @@
    (".kt" :> "Kotlin") @@ (".sql" :> "SQL") @@ (".sh" :> "Shell") @@
    (".yaml" :> "YAML") @@ (".json" :> "JSON")

isCodeFile(path) == ToLower(Ext(path)) \in codeExtensions

detectLanguage(path) ==
    LET ext == ToLower(Ext(path))
    IN  IF ext \in DOMAIN languages THEN languages[ext] ELSE ""

\* The important-directory names found in the lower-cased directory part. The
\* code ranges over a Go map and breaks at the first name that matches: the
\* order of that range is unspecified, so any matching name can be the one.
MatchingDirs(path) ==
    {d \in DOMAIN importantDirs : Contains(ToLower(Dir(path)), d)}

\* The values `score` can hold after the important-directory loop.
DirScoreChoices(path) ==
    IF MatchingDirs(path) = {} THEN {0}
    ELSE {importantDirs[d] : d \in MatchingDirs(path)}

isTestName(nameLower) ==
    \/ Contains(nameLower, "_test.")
    \/ Contains(nameLower, ".test.")
    \/ Contains(nameLower, ".spec.")
    \/ HasPrefix(nameLower, "test_")

\* calculateFileScore(path), dirScore being the outcome of the map range.
calculateFileScore(path, dirScore) ==
    LET nameLower == ToLower(Base(path))
        ext       == ToLower(Ext(path))
        boosted   == IF ext \in DOMAIN extBoost THEN dirScore + extBoost[ext]
                     ELSE dirScore
        depth     == Count(path, "/")
        nested    == IF depth > 4 THEN boosted - (depth - 4) * 5 ELSE boosted
    IN  IF nameLower \in entryPoints THEN [score |-> 100, category |-> "entry"]
        ELSE IF nameLower \in configFiles THEN [score |-> 90, category |-> "config"]
        ELSE IF isTestName(nameLower)
             THEN [score |-> Max(dirScore, 40), category |-> "test"]
        ELSE IF Contains(path, "vendor/") \/ Contains(path, "node_modules/")
             THEN [score |-> 0, category |-> ""]
        ELSE IF nested < 10 /\ isCodeFile(path)
             THEN [score |-> 10, category |-> "source"]
        ELSE [score |-> nested, category |-> "source"]

\* One outcome of the map range for every path of a set of paths.
RECURSIVE PicksOver(_)
PicksOver(paths) ==
    IF paths = {} THEN {<<>>}
    ELSE LET p == CHOOSE q \in paths : TRUE
         IN  {(p :> v) @@ f : v \in DirScoreChoices(p), f \in PicksOver(paths \ {p})}

DirPicks(entries) == PicksOver({entries[i].path : i \in 1..Len(entries)})

\* scoreFiles(entries): the candidates, in tree order.
RECURSIVE scoreFiles(_, _)
scoreFiles(entries, pick) ==
    IF entries = <<>> THEN <<>>
    ELSE LET entry == Head(entries)
             sc    == calculateFileScore(entry.path, pick[entry.path])
             rest  == scoreFiles(Tail(entries), pick)
         IN  IF entry.type # "blob" THEN rest
             ELSE IF ~isCodeFile(entry.path) THEN rest
             ELSE IF sc.score > 0
                  THEN <<[path     |-> entry.path,
                          score    |-> sc.score,
                          language |-> detectLanguage(entry.path),
                          category |-> sc.category]>> \o rest
             ELSE rest

---------------------------------------------------------------------------
(* The scorer applied to one tree entry.                                   *)

DirPool ==
    {"", "cmd/", "internal/services/", "pkg/utils/", "lib/", "docs/",
     "vendor/", "node_modules/", "src/vendor/", "vendor/cmd/",
     "a/b/c/d/e/", "cmd/a/b/c/d/e/"}

NamePool ==
    {"main.go", "Main.go", "index.js", "go.mod", "package.json", "Makefile",
     "x_test.go", "test_x.py", "x.go", "x.ts", "x.h", "x.sql", "x.md"}

ScorePaths == {d \o n : d \in DirPool, n \in NamePool}

InitScore ==
    /\ pc = "score"
    /\ sc_path \in ScorePaths
    /\ sc_out = NoValue
    /\ sc_again = NoValue
    /\ SummaryIdle
    /\ ParseIdle
    /\ PipeIdle
    /\ PromptIdle
    /\ QuotaIdle

\* calculateFileScore on sc_path, and scoreFiles on the tree holding just it;
\* dirScore is what the important-directory loop left in `score`
ScoreFile ==
    /\ pc = "score"
    /\ \E pick \in DirPicks(<<[path |-> sc_path]>>) :
          sc_out' = [dirScore   |-> pick[sc_path],
                     result     |-> calculateFileScore(sc_path, pick[sc_path]),
                     candidates |-> scoreFiles(<<[path |-> sc_path, type |-> "blob",
                                                  size |-> 0]>>, pick)]
    /\ pc' = "scored"
    /\ UNCHANGED <<sc_path, sc_again, summaryVars, parseVars, pipeVars, promptVars, quotaVars>>

\* calculateFileScore is evaluated on sc_path once more
ScoreAgain ==
    /\ pc = "scored"
    /\ \E dirScore \in DirScoreChoices(sc_path) :
          sc_again' = calculateFileScore(sc_path, dirScore)
    /\ pc' = "rescored"
    /\ UNCHANGED <<sc_path, sc_out, summaryVars, parseVars, pipeVars, promptVars, quotaVars>>

NextScore == ScoreFile \/ ScoreAgain

SpecScore == InitScore /\ [][NextScore]_vars

\* a path with a vendor or third-party-dependency directory segment
HasVendorSegment(path) ==
    \/ HasPrefix(path, "vendor/") \/ Contains(path, "/vendor/")
    \/ HasPrefix(path, "node_modules/") \/ Contains(path, "/node_modules/")

\* C2: every path with a vendor/ or node_modules/ directory segment scores 0
\* and is no selection candidate, whatever the earlier steps found.
C2_VendorScoresZero ==
    (pc = "scored" /\ HasVendorSegment(sc_path)) =>
        (sc_out.result.score = 0 /\ sc_out.candidates = <<>>)

\* C3: the scorer returns at most 100 for every path.
C3_ScoreAtMost100 ==
    pc = "scored" => sc_out.result.score <= 100

---------------------------------------------------------------------------
(* The Summary Builder: services/ai_analyzer.go, buildSummary.             *)

Severities == {"HIGH", "MEDIUM", "LOW", "INFO"}

Categories == {"bug", "security", "performance", "quality", "style"}

\* models.Issue
Issue(severity, category, title, file, line, description, suggestion) ==
    [Severity |-> severity, Category |-> category, Title |-> title, File |-> file,
     Line |-> line, Description |-> description, Suggestion |-> suggestion]

\* a Go map[string]int built by m[key]++ over the findings: the keys that occur
CountBy(issues, field) ==
    LET keys == {issues[i][field] : i \in 1..Len(issues)}
    IN  [k \in keys |-> Cardinality({i \in 1..Len(issues) : issues[i][field] = k})]

\* m[key] of a Go map[string]int: 0 for a key it does not hold
Lookup(m, key) == IF key \in DOMAIN m THEN m[key] ELSE 0

\* the key-findings loop without the stop at five
RECURSIVE KeyFindingsUncapped(_, _)
KeyFindingsUncapped(issues, found) ==
    IF issues = <<>> THEN found
    ELSE IF Head(issues).Severity = "HIGH" \/ Head(issues).Severity = "MEDIUM"
         THEN KeyFindingsUncapped(Tail(issues), Append(found, Head(issues).Title))
    ELSE KeyFindingsUncapped(Tail(issues), found)

\* the key-findings loop: titles of HIGH/MEDIUM findings, stopping at five
RECURSIVE KeyFindings(_, _)
KeyFindings(issues, found) ==
    IF issues = <<>> \/ Len(found) >= 5 THEN found
    ELSE IF Head(issues).Severity = "HIGH" \/ Head(issues).Severity = "MEDIUM"
         THEN KeyFindings(Tail(issues), Append(found, Head(issues).Title))
    ELSE KeyFindings(Tail(issues), found)

\* buildSummary without the clamp of the score at 0
buildSummaryUnclamped(issues, rawAnalysis) ==
    LET bySeverity == CountBy(issues, "Severity")
    IN  [TotalIssues      |-> Len(issues),
         IssuesBySeverity |-> bySeverity,
         IssuesByCategory |-> CountBy(issues, "Category"),
         OverallScore     |-> 100 - Lookup(bySeverity, "HIGH") * 10
                                  - Lookup(bySeverity, "MEDIUM") * 5
                                  - Lookup(bySeverity, "LOW") * 3
                                  - Lookup(bySeverity, "INFO") * 1,
         KeyFindings      |-> KeyFindings(issues, <<>>)]

\* buildSummary without the stop of the key findings at five
buildSummaryUncapped(issues, rawAnalysis) ==
    LET bySeverity == CountBy(issues, "Severity")
        score == 100 - Lookup(bySeverity, "HIGH") * 10
                     - Lookup(bySeverity, "MEDIUM") * 5
                     - Lookup(bySeverity, "LOW") * 3
                     - Lookup(bySeverity, "INFO") * 1
    IN  [TotalIssues      |-> Len(issues),
         IssuesBySeverity |-> bySeverity,
         IssuesByCategory |-> CountBy(issues, "Category"),
         OverallScore     |-> IF score < 0 THEN 0 ELSE score,
         KeyFindings      |-> KeyFindingsUncapped(issues, <<>>)]

buildSummaryHighFive(issues, rawAnalysis) ==
    LET bySeverity == CountBy(issues, "Severity")
        score == 100 - Lookup(bySeverity, "HIGH") * 5
                     - Lookup(bySeverity, "MEDIUM") * 5
                     - Lookup(bySeverity, "LOW") * 3
                     - Lookup(bySeverity, "INFO") * 1
    IN  [TotalIssues      |-> Len(issues),
         IssuesBySeverity |-> bySeverity,
         IssuesByCategory |-> CountBy(issues, "Category"),
         OverallScore     |-> IF score < 0 THEN 0 ELSE score,
         KeyFindings      |-> KeyFindings(issues, <<>>)]

buildSummary(issues, rawAnalysis) ==
    LET bySeverity == CountBy(issues, "Severity")
        score == 100 - Lookup(bySeverity, "HIGH") * 10
                     - Lookup(bySeverity, "MEDIUM") * 5
                     - Lookup(bySeverity, "LOW") * 3
                     - Lookup(bySeverity, "INFO") * 1
    IN  [TotalIssues      |-> Len(issues),
         IssuesBySeverity |-> bySeverity,
         IssuesByCategory |-> CountBy(issues, "Category"),
         OverallScore     |-> IF score < 0 THEN 0 ELSE score,
         KeyFindings      |-> KeyFindings(issues, <<>>)]

---------------------------------------------------------------------------
(* buildSummary applied to finding lists, and to a list grown by one.      *)

MaxHigh == 10

MaxMedium == 2

MaxLow == 2

MaxInfo == 2

TitlePool == <<"t1", "t2", "t3", "t4", "t5", "t6", "t7", "t8",
               "t9", "t10", "t11", "t12", "t13", "t14", "t15", "t16",
               "t17", "t18", "t19", "t20", "t21", "t22", "t23", "t24">>

CategoryOf(severity) ==
    CASE severity = "HIGH" -> "security"
      [] severity = "MEDIUM" -> "bug"
      [] severity = "LOW" -> "quality"
      [] OTHER -> "style"

\* h HIGH, then m MEDIUM, then l LOW, then i INFO findings
SeverityList(h, m, l, i) ==
    [k \in 1..(h + m + l + i) |->
        IF k <= h THEN "HIGH"
        ELSE IF k <= h + m THEN "MEDIUM"
        ELSE IF k <= h + m + l THEN "LOW" ELSE "INFO"]

Reverse(seq) == [k \in 1..Len(seq) |-> seq[Len(seq) + 1 - k]]

IssuesOf(sevs) ==
    [k \in 1..Len(sevs) |->
        Issue(sevs[k], CategoryOf(sevs[k]),
              TitlePool[((k - 1) % Len(TitlePool)) + 1], "", 0, "d", "")]

IssueLists ==
    LET lists == {SeverityList(h, m, l, i) :
                    h \in 0..MaxHigh, m \in 0..MaxMedium, l \in 0..MaxLow, i \in 0..MaxInfo}
    IN  {IssuesOf(sevs) : sevs \in lists} \cup {IssuesOf(Reverse(sevs)) : sevs \in lists}

InitSummary ==
    /\ pc = "summary"
    /\ sm_issues \in IssueLists
    /\ sm_out = NoValue
    /\ sm_prev = NoValue
    /\ sm_added = NoValue
    /\ ScoreIdle
    /\ ParseIdle
    /\ PipeIdle
    /\ PromptIdle
    /\ QuotaIdle

BuildSummary ==
    /\ pc = "summary"
    /\ sm_out' = buildSummary(sm_issues, "")
    /\ pc' = "summarized"
    /\ UNCHANGED <<sm_issues, sm_prev, sm_added, scoreVars, parseVars, pipeVars, promptVars, quotaVars>>

\* one more finding is appended to the list and the summary is built again
AddFinding ==
    /\ pc = "summarized"
    /\ \E severity \in Severities :
          LET issue == Issue(severity, CategoryOf(severity), "added", "", 0, "d", "")
          IN  /\ sm_added' = issue
              /\ sm_issues' = Append(sm_issues, issue)
              /\ sm_out' = buildSummary(Append(sm_issues, issue), "")
    /\ sm_prev' = sm_out
    /\ pc' = "resummarized"
    /\ UNCHANGED <<scoreVars, parseVars, pipeVars, promptVars, quotaVars>>

NextSummary == BuildSummary \/ AddFinding

SpecSummary == InitSummary /\ [][NextSummary]_vars

HighAdded == pc = "resummarized" /\ sm_added.Severity = "HIGH"

\* C7 as stated: whenever the score is not already 0, one more HIGH finding
\* lowers overallScore by exactly 10.
C7_HighLowersByTen ==
    (HighAdded /\ sm_prev.OverallScore # 0) =>
        sm_out.OverallScore = sm_prev.OverallScore - 10

\* C7 amended: one more HIGH finding lowers overallScore by exactly 10 when it
\* was at least 10, and takes it to 0 when it was below 10.
C7_HighLowersByTenClamped ==
    HighAdded =>
        /\ sm_prev.OverallScore >= 10 => sm_out.OverallScore = sm_prev.OverallScore - 10
        /\ sm_prev.OverallScore < 10 => sm_out.OverallScore = 0

\* a HIGH finding added to a list scoring between 1 and 9, which the clamp
\* takes to 0
C7_Witness ==
    /\ HighAdded
    /\ sm_prev.OverallScore \in 1..9
    /\ sm_out.OverallScore = 0

---------------------------------------------------------------------------
(* The Finding Extractor: services/ai_analyzer.go, parseIssues.  Each      *)
(* regular expression is matched as Go's regexp package matches it:        *)
(* leftmost, greedy and lazy operators preferring what a backtracking      *)
(* matcher tries first; `.` does not match a newline and `$` matches only  *)
(* at the end of the text (no s or m flag is set in these patterns).       *)

MinOf(S) == CHOOSE i \in S : \A j \in S : i <= j

MaxOf(S) == CHOOSE i \in S : \A j \in S : i >= j

\* the least position of S, none when S is empty
MinOr(S, none) == IF S = {} THEN none ELSE MinOf(S)

\* the greatest position of S, none when S is empty
MaxOr(S, none) == IF S = {} THEN none ELSE MaxOf(S)

\* \s of Go's regexp
SpaceChars == {" ", "\n", "\t", "\r", "\f"}

IsSpace(c) == c \in SpaceChars

\* \d
DigitChars == {"0", "1", "2", "3", "4", "5", "6", "7", "8", "9"}

\* the length of the longest run, from position q of s on, of characters of
\* the class chars (member = TRUE) or outside it (member = FALSE)
RunLength(s, q, chars, member) ==
    Max(MinOr({i \in q..Len(s) : (At(s, i) \in chars) # member}, Len(s) + 1) - q, 0)

\* the position of the first newline at or after t, Len(s)+1 when there is none
NextNewline(s, t) == MinOr({i \in t..Len(s) : At(s, i) = "\n"}, Len(s) + 1)

\* where a group starts that follows a greedy run `[chars]*` or `[chars]+`
\* (least = 0 or 1) from position q and must begin with a character outside
\* stops: the run gives back characters until one is left for the group;
\* 0 when no split of the run leaves one
GroupStart(s, q, chars, least, stops) ==
    q + MaxOr({k \in least..RunLength(s, q, chars, TRUE) :
                  q + k <= Len(s) /\ At(s, q + k) \notin stops}, 0 - q)

\* the positions of s outside \s
NonSpace(s) == {i \in 1..Len(s) : ~IsSpace(At(s, i))}

\* strings.TrimSpace
TrimSpace(s) == SubSeq(s, MinOr(NonSpace(s), 1), MaxOr(NonSpace(s), 0))

\* strconv.Atoi of a run of digits (at most nine of them here)
RECURSIVE Atoi(_)
Atoi(digits) ==
    IF digits = "" THEN 0
    ELSE Atoi(SubSeq(digits, 1, Len(digits) - 1)) * 10
         + (Index("0123456789", At(digits, Len(digits))) - 1)

\* the twenty "[SEVERITY/category]" openings of issuePattern
Markers ==
    {[severity |-> sev, category |-> cat, text |-> "[" \o sev \o "/" \o cat \o "]"] :
        sev \in Severities, cat \in Categories}

\* issuePattern's match at p, opened by marker m, whose title starts at t and
\* runs to the first newline (which the match consumes) or to the end of text
IssueMatchTitle(s, p, m, t) ==
    IF t = 0 THEN [ok |-> FALSE]
    ELSE [ok |-> TRUE, start |-> p,
          severity |-> m.severity, category |-> m.category,
          title |-> SubSeq(s, t, NextNewline(s, t) - 1),
          end |-> Min(NextNewline(s, t) + 1, Len(s) + 1)]

\* issuePattern after its marker: \s*(.+?)(?:\n|$)
\* \s* takes the longest run of white space that leaves a character other than
\* a newline for the title.
IssueMatchMarker(s, p, m) ==
    IssueMatchTitle(s, p, m, GroupStart(s, p + Len(m.text), SpaceChars, 0, {"\n"}))

IssueMatchAmong(s, p, ms) ==
    IF ms = {} THEN [ok |-> FALSE] ELSE IssueMatchMarker(s, p, CHOOSE m \in ms : TRUE)

\* issuePattern at position p of s:
\*   \[(HIGH|MEDIUM|LOW|INFO)/(bug|security|performance|quality|style)\]\s*(.+?)(?:\n|$)
IssueMatchAt(s, p) ==
    IF At(s, p) # "[" THEN [ok |-> FALSE]
    ELSE IssueMatchAmong(s, p, {m \in Markers : MatchAt(s, m.text, p)})

\* issuePattern.FindAllStringSubmatchIndex(s, -1), searching from position from
RECURSIVE FindAllIssues(_, _)

FindAllIssuesAt(s, p) ==
    IF p = 0 THEN <<>>
    ELSE <<IssueMatchAt(s, p)>> \o FindAllIssues(s, IssueMatchAt(s, p).end)

FindAllIssues(s, from) ==
    FindAllIssuesAt(s, MinOr({p \in from..Len(s) : IssueMatchAt(s, p).ok}, 0))

\* filePattern's groups: the file name from t to before e, and the digits
\* after a ":" at e
FileMatchGroups(s, t, e) ==
    [ok |-> TRUE, file |-> SubSeq(s, t, e - 1),
     line |-> IF At(s, e) = ":"
              THEN SubSeq(s, e + 1, e + RunLength(s, e + 1, DigitChars, TRUE))
              ELSE ""]

\* where the file name starts for a "File:" at p: after the longest run of
\* white space that leaves a character of [^\n:]; 0 when there is none
FileStart(s, p) == GroupStart(s, p + 5, SpaceChars, 0, {"\n", ":"})

FileMatchFrom(s, t) ==
    FileMatchGroups(s, t, t + RunLength(s, t, {"\n", ":"}, FALSE))

FileMatchAt(s, p) ==
    IF p = 0 THEN [ok |-> FALSE] ELSE FileMatchFrom(s, FileStart(s, p))

FileMatchIn(s, lc) ==
    FileMatchAt(s, MinOr({p \in 1..Len(s) :
                             MatchAt(lc, "file:", p) /\ FileStart(s, p) # 0}, 0))

\* filePattern.FindStringSubmatch(s):  (?i)File:\s*([^\n:]+)(?::(\d+))?
FileMatch(s) == FileMatchIn(s, ToLower(s))

\* A pattern  (?i)<label>\s*(.+?)(?:<terminator>|$)  searched in s, where every
\* alternative of the terminator begins with a newline; terms holds them in
\* lower case, lc is s in lower case.
\* `.+?` cannot pass a newline, so a group starting at t ends at the first
\* newline after t, if a terminator matches there, or at the end of the text;
\* 0 when neither is so.
FieldEnd(s, lc, terms, t) ==
    IF \/ NextNewline(s, t) = Len(s) + 1
       \/ \E term \in terms : MatchAt(lc, term, NextNewline(s, t))
    THEN NextNewline(s, t) ELSE 0

\* where the group starts for a label that ends before q: after the longest
\* run of white space that leaves a group; 0 when there is none
FieldStart(s, lc, terms, q) ==
    q + MaxOr({k \in 0..RunLength(s, q, SpaceChars, TRUE) :
                  /\ q + k <= Len(s)
                  /\ At(s, q + k) # "\n"
                  /\ FieldEnd(s, lc, terms, q + k) # 0}, 0 - q)

FieldGroup(s, lc, terms, t) ==
    [ok |-> TRUE, text |-> SubSeq(s, t, FieldEnd(s, lc, terms, t) - 1)]

FieldAt(s, lc, label, terms, p) ==
    IF p = 0 THEN [ok |-> FALSE]
    ELSE FieldGroup(s, lc, terms, FieldStart(s, lc, terms, p + Len(label)))

LazyFieldIn(s, lc, label, terms) ==
    FieldAt(s, lc, label, terms,
            MinOr({p \in 1..Len(s) :
                      /\ MatchAt(lc, label, p)
                      /\ FieldStart(s, lc, terms, p + Len(label)) # 0}, 0))

LazyField(s, label, terms) == LazyFieldIn(s, ToLower(s), label, terms)

\* descPattern's terminator  \n(?:Suggestion:|File:|\[)
DescTerms == {"\nsuggestion:", "\nfile:", "\n["}

\* suggPattern's terminator  \n\n|\n\[
SuggTerms == {"\n\n", "\n["}

\* descPattern.FindStringSubmatch(s)
DescMatch(s) == LazyField(s, "description:", DescTerms)

\* suggPattern.FindStringSubmatch(s)
SuggMatch(s) == LazyField(s, "suggestion:", SuggTerms)

\* issuesSection = issuesSection[:endIdx+10], when a later "##" was found
IssuesSectionEnd(section, endIdx) ==
    IF endIdx = 0 THEN section ELSE SubSeq(section, 1, endIdx - 1 + 10)

\* The code slices issuesSection[10:] unconditionally, which panics when fewer
\* than ten characters follow the start of the header.
IssuesSectionOf(section) ==
    IF Len(section) < 10 THEN [panic |-> TRUE]
    ELSE [panic |-> FALSE,
          text  |-> IssuesSectionEnd(section,
                                     Index(SubSeq(section, 11, Len(section)), "##"))]

IssuesSectionAt(response, idx) ==
    IF idx = 0 THEN [panic |-> FALSE, text |-> response]
    ELSE IssuesSectionOf(SubSeq(response, idx, Len(response)))

\* issuesSection: from the "## ISSUES" header to the next "##"
IssuesSection(response) == IssuesSectionAt(response, Index(ToUpper(response), "## ISSUES"))

\* the finding built from a marker and the three field matches of its content
IssueOfMatches(loc, fm, dm, sm) ==
    Issue(ToUpper(loc.severity), ToLower(loc.category), TrimSpace(loc.title),
          IF fm.ok THEN TrimSpace(fm.file) ELSE "",
          IF fm.ok /\ fm.line # "" THEN Atoi(fm.line) ELSE 0,
          IF dm.ok THEN TrimSpace(dm.text) ELSE "",
          IF sm.ok THEN TrimSpace(sm.text) ELSE "")

IssueOfContent(loc, content) ==
    IssueOfMatches(loc, FileMatch(content), DescMatch(content), SuggMatch(content))

\* the body of the loop over the markers: the finding of marker i of parts,
\* whose content runs to the next marker or to the end of the section
IssueOfPart(section, parts, i) ==
    IssueOfContent(parts[i],
                   SubSeq(section, parts[i].end,
                          (IF i + 1 <= Len(parts) THEN parts[i + 1].start
                           ELSE Len(section) + 1) - 1))

\* "Only add if we have meaningful content"
MeaningfulBoth(issue) ==
    issue.Title # "" /\ (issue.Description # "" /\ issue.Suggestion # "")

Meaningful(issue) ==
    issue.Title # "" /\ (issue.Description # "" \/ issue.Suggestion # "")

PrimaryKeep(issue) == IF Meaningful(issue) THEN <<issue>> ELSE <<>>

\* the structured-marker parser: parseIssues up to its fallback
RECURSIVE PrimaryFrom(_, _, _)
PrimaryFrom(section, parts, i) ==
    IF i > Len(parts) THEN <<>>
    ELSE PrimaryKeep(IssueOfPart(section, parts, i)) \o PrimaryFrom(section, parts, i + 1)

parsePrimaryIn(sec) ==
    IF sec.panic THEN [panic |-> TRUE]
    ELSE [panic |-> FALSE,
          issues |-> PrimaryFrom(sec.text, FindAllIssues(sec.text, 1), 1)]

parsePrimary(response) == parsePrimaryIn(IssuesSection(response))

\* truncateString
truncateString(str, maxLen) ==
    IF Len(str) <= maxLen THEN str ELSE SubSeq(str, 1, maxLen - 3) \o "..."

\* [:\s] of the severity patterns
ColonOrSpaceChars == SpaceChars \cup {":"}

\* the keyword alternatives of the three severityPatterns, with their severity
severityPatterns ==
    <<[keywords |-> {"critical", "high severity", "high risk", "severe"},
       severity |-> "HIGH"],
      [keywords |-> {"warning", "medium severity", "medium risk", "moderate"},
       severity |-> "MEDIUM"],
      [keywords |-> {"minor", "low severity", "low risk", "suggestion"},
       severity |-> "LOW"]>>

\* one or two stars at position p (\*\*?, greedy): the number of stars taken
Stars(s, p) == IF At(s, p) # "*" THEN 0 ELSE IF At(s, p + 1) = "*" THEN 2 ELSE 1

\* a severity match whose last group starts at t and runs to the first
\* newline (which the match consumes) or to the end of the text:  (.+?)(?:\n|$)
SeverityGroup(s, t) ==
    IF t = 0 THEN [ok |-> FALSE]
    ELSE [ok |-> TRUE, text |-> SubSeq(s, t, NextNewline(s, t) - 1),
          end |-> Min(NextNewline(s, t) + 1, Len(s) + 1)]

\* a severity pattern after its keyword, which ends before c:
\* \*\*?[:\s]+(.+?)(?:\n|$); [:\s]+ takes the longest run that leaves a
\* character other than a newline for the group
SeverityAfterKeyword(s, c) ==
    IF Stars(s, c) = 0 THEN [ok |-> FALSE]
    ELSE SeverityGroup(s, GroupStart(s, c + Stars(s, c), ColonOrSpaceChars, 1, {"\n"}))

SeverityKeyword(s, c, kws) ==
    IF kws = {} THEN [ok |-> FALSE]
    ELSE SeverityAfterKeyword(s, c + Len(CHOOSE kw \in kws : TRUE))

\* a severity pattern at position p of s (lc is s in lower case):
\*   (?i)\*\*?(<keywords>)\*\*?[:\s]+(.+?)(?:\n|$)
\* A keyword begins with a letter and [:\s] holds no star, so both star groups
\* take every star there is (at most two).
SeverityMatchAt(s, lc, p, keywords) ==
    IF Stars(s, p) = 0 THEN [ok |-> FALSE]
    ELSE SeverityKeyword(s, p + Stars(s, p),
                         {kw \in keywords : MatchAt(lc, kw, p + Stars(s, p))})

\* sp.pattern.FindAllStringSubmatch(response, -1): the second groups
RECURSIVE FindAllSeverity(_, _, _, _)

FindAllSeverityAt(s, lc, keywords, p) ==
    IF p = 0 THEN <<>>
    ELSE <<SeverityMatchAt(s, lc, p, keywords).text>>
         \o FindAllSeverity(s, lc, keywords, SeverityMatchAt(s, lc, p, keywords).end)

FindAllSeverity(s, lc, keywords, from) ==
    FindAllSeverityAt(s, lc, keywords,
                      MinOr({p \in from..Len(s) : SeverityMatchAt(s, lc, p, keywords).ok}, 0))

\* the findings of one severity pattern: title and description are the group
SeverityIssuesOf(severity, texts) ==
    [k \in 1..Len(texts) |->
        Issue(severity, "quality", TrimSpace(texts[k]), "", 0, TrimSpace(texts[k]), "")]

SeverityIssuesFor(response, lc, sp) ==
    SeverityIssuesOf(sp.severity, FindAllSeverity(response, lc, sp.keywords, 1))

SeverityIssuesIn(response, lc) ==
    SeverityIssuesFor(response, lc, severityPatterns[1])
    \o SeverityIssuesFor(response, lc, severityPatterns[2])
    \o SeverityIssuesFor(response, lc, severityPatterns[3])

\* the findings of the severity-indicator loop, pattern by pattern
SeverityIssues(response) == SeverityIssuesIn(response, ToLower(response))

\* the vocabulary of bulletPattern (matched case-sensitively)
bulletWords ==
    {"bug", "issue", "error", "vulnerability", "problem", "missing", "should", "needs to"}

\* a group of bulletPattern from t to the end of its line: it holds a word of
\* the vocabulary with at least one character before and after it
BulletGroupOk(s, t) ==
    \E w \in bulletWords :
        \E j \in (t + 1)..(NextNewline(s, t) - 1 - Len(w)) : MatchAt(s, w, j)

\* where the group starts for a bullet at p: \s+ takes the longest run of white
\* space that leaves such a group; 0 when there is none
BulletStart(s, p) ==
    p + 1 + MaxOr({k \in 1..RunLength(s, p + 1, SpaceChars, TRUE) :
                      /\ p + 1 + k <= Len(s)
                      /\ At(s, p + 1 + k) # "\n"
                      /\ BulletGroupOk(s, p + 1 + k)}, 0 - (p + 1))

BulletMatchFrom(s, t) ==
    IF t = 0 THEN [ok |-> FALSE]
    ELSE [ok |-> TRUE, text |-> SubSeq(s, t, NextNewline(s, t) - 1),
          end |-> NextNewline(s, t)]

\* bulletPattern at the line start p of s:
\*   (?m)^[\-\*]\s+(.+(?:bug|issue|...|needs to).+)$
BulletMatchAt(s, p) ==
    IF ~(p = 1 \/ At(s, p - 1) = "\n") \/ At(s, p) \notin {"-", "*"}
    THEN [ok |-> FALSE]
    ELSE BulletMatchFrom(s, BulletStart(s, p))

\* bulletPattern.FindAllStringSubmatch(response, -1): the first groups
RECURSIVE FindAllBullets(_, _)

FindAllBulletsAt(s, p) ==
    IF p = 0 THEN <<>>
    ELSE <<BulletMatchAt(s, p).text>> \o FindAllBullets(s, BulletMatchAt(s, p).end)

FindAllBullets(s, from) ==
    FindAllBulletsAt(s, MinOr({p \in from..Len(s) : BulletMatchAt(s, p).ok}, 0))

\* a grading of bullet lines with a fifth level above HIGH
BulletSeverityCritical(content) ==
    IF Contains(content, "critical") \/ Contains(content, "injection") THEN "CRITICAL"
    ELSE IF Contains(content, "security") \/ Contains(content, "vulnerability")
    THEN "HIGH"
    ELSE IF \/ Contains(content, "bug") \/ Contains(content, "error")
            \/ Contains(content, "crash") \/ Contains(content, "fail")
    THEN "MEDIUM"
    ELSE "LOW"

\* the severity the keywords of a bullet line (in lower case) give it
BulletSeverity(content) ==
    IF \/ Contains(content, "security") \/ Contains(content, "vulnerability")
       \/ Contains(content, "injection") \/ Contains(content, "critical")
    THEN "HIGH"
    ELSE IF \/ Contains(content, "bug") \/ Contains(content, "error")
            \/ Contains(content, "crash") \/ Contains(content, "fail")
    THEN "MEDIUM"
    ELSE "LOW"

\* the category the keywords of a bullet line (in lower case) give it
BulletCategory(content) ==
    IF \/ Contains(content, "security") \/ Contains(content, "auth")
       \/ Contains(content, "injection") \/ Contains(content, "xss")
    THEN "security"
    ELSE IF \/ Contains(content, "performance") \/ Contains(content, "slow")
            \/ Contains(content, "memory") \/ Contains(content, "n+1")
    THEN "performance"
    ELSE IF Contains(content, "bug") \/ Contains(content, "error")
    THEN "bug"
    ELSE "quality"

BulletIssueOf(text, content) ==
    Issue(BulletSeverity(content), BulletCategory(content),
          truncateString(text, 100), "", 0, text, "")

\* the finding of one bullet line
BulletIssue(text) == BulletIssueOf(text, ToLower(text))

BulletIssues(bullets) == [k \in 1..Len(bullets) |-> BulletIssue(bullets[k])]

\* the fallback parser
parseIssuesSimple(response) ==
    SeverityIssues(response) \o BulletIssues(FindAllBullets(response, 1))

\* parseIssues with the fallback run on every response and its findings
\* appended to those of the structured parser
parseIssuesBoth(response, first) ==
    IF first.panic THEN [panic |-> TRUE]
    ELSE [panic    |-> FALSE,
          primary  |-> first.issues,
          fallback |-> TRUE,
          issues   |-> first.issues \o parseIssuesSimple(response)]

parseIssuesAfter(response, first) ==
    IF first.panic THEN [panic |-> TRUE]
    ELSE [panic    |-> FALSE,
          primary  |-> first.issues,
          fallback |-> Len(first.issues) = 0,
          issues   |-> IF Len(first.issues) = 0 THEN parseIssuesSimple(response)
                       ELSE first.issues]

\* parseIssues: the structured parser, then the fallback when it found nothing.
\* `primary` records what the structured parser found (the code keeps it in
\* `issues` until the fallback overwrites it), `fallback` whether
\* parseIssuesSimple was called.
parseIssues(response) == parseIssuesAfter(response, parsePrimary(response))

---------------------------------------------------------------------------
(* parseIssues applied to completion texts in the required marker format.  *)

MaxEntries == 2

\* well-formed entries: the fields of one finding (lineText "" is a File: line
\* without the optional line number)
EntryPool ==
    {[severity |-> "HIGH", category |-> "security", title |-> "SQL injection",
      file |-> "db.go", lineText |-> "42", line |-> 42,
      description |-> "unescaped input", suggestion |-> "use parameterized queries"],
     [severity |-> "MEDIUM", category |-> "bug", title |-> "Nil dereference",
      file |-> "internal/api/user.go", lineText |-> "", line |-> 0,
      description |-> "user may be nil", suggestion |-> "check the lookup result"],
     [severity |-> "LOW", category |-> "performance", title |-> "Query in a loop",
      file |-> "app.py", lineText |-> "7", line |-> 7,
      description |-> "one query per row", suggestion |-> "batch the reads"]}

HeaderPool == {"## ISSUES", "## OVERVIEW\nA small service.\n\n## Issues"}

\* a section after the findings that states further remarks in free form
NotesTrailer ==
    "## NOTES\n**Critical**: rotate the keys\n- Possible injection problem in search\n- Slow query should be cached\n- Crash bug in parser"

TrailerPool == {"", "## SUMMARY\nHIGH: 1", NotesTrailer}

\* the four lines of one entry
EntryLines(e) ==
    <<"[" \o e.severity \o "/" \o e.category \o "] " \o e.title,
      "File: " \o e.file \o (IF e.lineText = "" THEN "" ELSE ":" \o e.lineText),
      "Description: " \o e.description,
      "Suggestion: " \o e.suggestion>>

RECURSIVE Join(_, _)
Join(lines, sep) ==
    IF lines = <<>> THEN ""
    ELSE IF Len(lines) = 1 THEN lines[1]
    ELSE lines[1] \o sep \o Join(Tail(lines), sep)

RECURSIVE AllEntryLines(_, _)
AllEntryLines(entries, blank) ==
    IF entries = <<>> THEN <<>>
    ELSE (IF blank THEN <<"">> ELSE <<>>) \o EntryLines(Head(entries))
         \o AllEntryLines(Tail(entries), blank)

\* the text of a shape: the header, the entries (each after a blank line when
\* shape.blank), the trailer after a blank line, the last line terminated by a
\* newline when shape.finalNewline
Render(shape) ==
    Join(<<shape.header>> \o AllEntryLines(shape.entries, shape.blank)
         \o (IF shape.trailer = "" THEN <<>> ELSE <<"", shape.trailer>>), "\n")
    \o (IF shape.finalNewline THEN "\n" ELSE "")

EntrySeqs == UNION {[1..n -> EntryPool] : n \in 0..MaxEntries}

Shapes ==
    [header : HeaderPool, entries : EntrySeqs, blank : BOOLEAN,
     trailer : TrailerPool, finalNewline : BOOLEAN]

ScenarioC ==
    "## ISSUES\n[HIGH/security] SQL injection\nFile: db.go:42\nDescription: unescaped input\nSuggestion: use parameterized queries\n"

InitParse ==
    /\ pc = "parse"
    /\ pr_shape \in Shapes
    /\ pr_text = Render(pr_shape)
    /\ pr_out = NoValue
    /\ ScoreIdle
    /\ SummaryIdle
    /\ PipeIdle
    /\ PromptIdle
    /\ QuotaIdle

ParseIssues ==
    /\ pc = "parse"
    /\ pr_out' = parseIssues(pr_text)
    /\ pc' = "parsed"
    /\ UNCHANGED <<pr_text, pr_shape, scoreVars, summaryVars, pipeVars, promptVars, quotaVars>>

NextParse == ParseIssues

SpecParse == InitParse /\ [][NextParse]_vars

\* the finding that states the fields of entry e verbatim
FindingOf(e) ==
    Issue(e.severity, e.category, e.title, e.file, e.line, e.description, e.suggestion)

\* every line of the text is terminated by a single newline
SingleNewlines(shape) == ~shape.blank /\ shape.finalNewline /\ shape.trailer = ""

\* C4: for an ISSUES header followed by well-formed entries, each line ended by
\* a single newline, the primary parser yields findings whose seven fields
\* equal the source text; Scenario C yields the one finding it states.
C4_FieldsVerbatim ==
    (pc = "parsed" /\ SingleNewlines(pr_shape)) =>
        /\ ~pr_out.panic
        /\ pr_out.primary = [k \in 1..Len(pr_shape.entries) |-> FindingOf(pr_shape.entries[k])]
        /\ pr_text = ScenarioC =>
              pr_out.primary =
                  <<Issue("HIGH", "security", "SQL injection", "db.go", 42,
                          "unescaped input", "use parameterized queries")>>

\* C5: a text with exactly N well-formed entries in its ISSUES section yields
\* exactly N findings from the primary parser, in source order, and the
\* fallback parser adds none when N >= 1.
C5_ExactlyNFindings ==
    pc = "parsed" =>
        /\ ~pr_out.panic
        /\ Len(pr_out.primary) = Len(pr_shape.entries)
        /\ \A k \in 1..Len(pr_shape.entries) :
              /\ pr_out.primary[k].Title = pr_shape.entries[k].title
              /\ pr_out.primary[k].Severity = pr_shape.entries[k].severity
              /\ pr_out.primary[k].Category = pr_shape.entries[k].category
        /\ Len(pr_shape.entries) >= 1 => pr_out.issues = pr_out.primary

---------------------------------------------------------------------------
(* The pipeline: controllers/analyze.go, performAnalysis, with             *)
(* GetRepositoryFiles (services/github.go) and Analyze                     *)
(* (services/ai_analyzer.go), under a request context that can be          *)
(* cancelled at any moment.                                                *)
(*                                                                         *)
(* A network call made with a cancelled context fails without a request    *)
(* being sent. A call in flight when the context is cancelled fails, or    *)
(* still returns what the provider sent when the response had been read    *)
(* before the cancellation. A database call made with a cancelled context  *)
(* fails.                                                                  *)

\* maxTotalSize of GetRepositoryFiles
maxTotalSize == 500000

\* the per-file limit of GetRepositoryFiles
MaxFileSize == 100000

\* the maxFiles that replaces a requested maxFiles <= 0
DefaultMaxFiles == 15

StatusPending == "pending"

StatusProcessing == "processing"

StatusCompleted == "completed"

StatusFailed == "failed"

\* the request context is done
Cancelled == pl_cancel # ""

\* models.FileContent, Content being held by its length
FileContent(path, language, size) == [Path |-> path, Language |-> language, Size |-> size]

\* the elements of a sequence
Range(seq) == {seq[i] : i \in 1..Len(seq)}

\* the candidates no candidate outscores
TopScored(S) == {c \in S : \A d \in S : c.score >= d.score}

\* the orders by descending score, candidates of equal score in any order
RECURSIVE SortedOrders(_)
SortedOrders(S) ==
    IF S = {} THEN {<<>>}
    ELSE UNION {{<<c>> \o rest : rest \in SortedOrders(S \ {c})} : c \in TopScored(S)}

\* c put behind the k candidates of sorted that score at least as much
StableInsertAt(sorted, c, k) ==
    SubSeq(sorted, 1, k) \o <<c>> \o SubSeq(sorted, k + 1, Len(sorted))

StableInsert(sorted, c) ==
    StableInsertAt(sorted, c,
                   Cardinality({i \in 1..Len(sorted) : sorted[i].score >= c.score}))

\* the insertion sort by descending score, which keeps equal scores in order
RECURSIVE StableOrder(_)
StableOrder(seq) ==
    IF seq = <<>> THEN <<>>
    ELSE StableInsert(StableOrder(SubSeq(seq, 1, Len(seq) - 1)), seq[Len(seq)])

\* a sort that puts the lowest score first
sortSliceLowestFirst(scoredFiles) == {Reverse(StableOrder(scoredFiles))}

\* sort.Slice(scoredFiles, score descending) as the Go toolchain of the
\* Dockerfile (1.24) runs it: an insertion sort up to 12 elements; above that
\* a pattern-defeating quicksort, whose partition steps exchange distant
\* elements, so that candidates of equal score can come out in either order
sortSlice(scoredFiles) ==
    IF Len(scoredFiles) <= 12 THEN {StableOrder(scoredFiles)}
    ELSE SortedOrders(Range(scoredFiles))

EntrySize(tree, hits) == IF hits = {} THEN 0 ELSE tree[MinOf(hits)].size

\* fileSize: the size of the first tree entry with the candidate's path
fileSize(tree, path) == EntrySize(tree, {i \in 1..Len(tree) : tree[i].path = path})

maxFilesOrDefault(maxFiles) == IF maxFiles <= 0 THEN DefaultMaxFiles ELSE maxFiles

FileLimitPassed(files, maxFiles) == Len(files) > maxFiles

\* len(files) >= maxFiles, the first test of the selection loop
FileLimitReached(files, maxFiles) == Len(files) >= maxFiles

\* totalSize >= maxTotalSize, the second test of the selection loop
BudgetReached(totalSize) == totalSize >= maxTotalSize

AnalyzeError == [outcome |-> "error"]

\* Analyze treating a completion text without findings as an error
AnalysisResultOrError(rawAnalysis, parsed, tokens) ==
    IF parsed.panic THEN [outcome |-> "panic"]
    ELSE IF parsed.issues = <<>> THEN AnalyzeError
    ELSE [outcome     |-> "result",
          RawAnalysis |-> rawAnalysis,
          Summary     |-> buildSummary(parsed.issues, rawAnalysis),
          Issues      |-> parsed.issues,
          TokensUsed  |-> tokens]

\* the AnalysisResult of a completion text and the findings parsed from it;
\* a panic of parseIssues unwinds through Analyze
AnalysisResultOf(rawAnalysis, parsed, tokens) ==
    IF parsed.panic THEN [outcome |-> "panic"]
    ELSE [outcome     |-> "result",
          RawAnalysis |-> rawAnalysis,
          Summary     |-> buildSummary(parsed.issues, rawAnalysis),
          Issues      |-> parsed.issues,
          TokensUsed  |-> tokens]

\* Analyze, from the answer of the provider on
Analyze(resp) ==
    IF resp.failed THEN AnalyzeError
    ELSE IF resp.status # 200 THEN AnalyzeError
    ELSE IF ~resp.valid THEN AnalyzeError
    ELSE IF Len(resp.choices) = 0 THEN AnalyzeError
    ELSE AnalysisResultOf(resp.choices[1], parseIssues(resp.choices[1]), resp.tokens)

---------------------------------------------------------------------------
(* The runs of the pipeline: a tree, a requested maxFiles, the providers'  *)
(* answers and the moment of cancellation are chosen freely.               *)

\* how many fetches of one run may fail or return a content whose length is
\* not the size the tree states, once a file has been collected; before that,
\* and on a cancelled context, every fetch may fail
MaxSurprises == 1

\* how many files ManyTree holds
ManyFiles == 17

Blob(path, size) == [path |-> path, type |-> "blob", size |-> size]

\* a directory entry, a file that is no code, a vendored file, a file over the
\* per-file limit and two files of equal score
SmallTree ==
    <<[path |-> "cmd", type |-> "tree", size |-> 0],
      Blob("cmd/main.go", 2000), Blob("README.md", 500),
      Blob("vendor/lib/x.go", 300), Blob("internal/big.go", 100001),
      Blob("pkg/a.go", 700), Blob("pkg/b.go", 900)>>

\* files that fill the byte budget
BudgetTree ==
    <<Blob("cmd/a.go", 100000), Blob("cmd/a.ts", 100000), Blob("main.go", 100000),
      Blob("pkg/a.go", 100000), Blob("pkg/a.ts", 99999), Blob("lib/a.go", 100000),
      Blob("lib/a.ts", 100000)>>

\* code files of pairwise different scores
ManyPaths ==
    <<"cmd/a.go", "cmd/a.ts", "main.go", "pkg/a.go", "pkg/a.ts", "lib/a.go",
      "lib/a.ts", "lib/a.js", "lib/a.sql", "lib/a.h", "utils/a.ts", "utils/a.js",
      "utils/a.sql", "lib/a.sh", "utils/a.sh", "a.go", "a.ts", "a.js", "a.sql",
      "a.sh">>

\* more small files than the default maxFiles
ManyTree == [i \in 1..Min(ManyFiles, Len(ManyPaths)) |-> Blob(ManyPaths[i], 1000)]

\* the paths of TieTree, in the order of the listing
TiePaths ==
    <<"cmd/a.go", "cmd/a.ts", "lib/a.go", "lib/a.h", "lib/a.js", "lib/a.sql",
      "lib/a.ts", "main.go", "pkg/a.go", "pkg/a.ts", "pkg/b.go", "utils/a.js",
      "utils/a.ts">>

\* thirteen code files in path order of which pkg/a.go and pkg/b.go score the
\* same and are the only ones within the per-file limit
TieTree ==
    [i \in 1..Len(TiePaths) |->
        Blob(TiePaths[i], IF TiePaths[i] \in {"pkg/a.go", "pkg/b.go"} THEN 1000
                          ELSE 100001)]

TreePool == {SmallTree, BudgetTree, ManyTree, TieTree}

MaxFilesPool == {-1, 0, 2}

\* a content length the tree did not state
OtherLengths == {250000}

CompletionTexts ==
    {"", ScenarioC, "## ISSUES", "The code looks fine.", "## ISSUES\nNone found.\n",
     "- Missing error handling should be added\n"}

Responses ==
    {Response(TRUE, 0, FALSE, <<>>, 0),
     Response(FALSE, 429, TRUE, <<>>, 0),
     Response(FALSE, 200, FALSE, <<>>, 0),
     Response(FALSE, 200, TRUE, <<>>, 0),
     Response(FALSE, 200, TRUE, <<ScenarioC, "">>, 120)}
    \cup {Response(FALSE, 200, TRUE, <<text>>, 100) : text \in CompletionTexts}

Init ==
    /\ pc = "repo"
    /\ pl_in \in [tree : TreePool, maxFiles : MaxFilesPool]
    /\ pl_cancel = ""
    /\ pl_late = {}
    /\ pl_maxFiles = 0
    /\ pl_queue = <<>>
    /\ pl_files = <<>>
    /\ pl_total = 0
    /\ pl_skips = 0
    /\ pl_status = NoAnalysis
    /\ pl_resp = NoResponse
    /\ pl_ai = NoResult
    /\ pl_ret = NoValue
    /\ pl_up = NoCalls
    /\ pl_seen = <<>>
    /\ ScoreIdle
    /\ SummaryIdle
    /\ ParseIdle
    /\ PromptIdle
    /\ QuotaIdle

\* pl_up after one more call to an upstream provider
CallMade(up, name) == [up EXCEPT ![name] = @ + 1]

\* pl_up after a call to an upstream provider has failed
CallFailed(up, name) == [up EXCEPT !.failed = @ \cup {name}]

\* performAnalysis returns (0, err)
ReturnError ==
    /\ pl_ret' = "error"
    /\ pc' = "done"

\* c.githubService.GetRepository is called
GetRepository ==
    /\ pc = "repo"
    /\ IF Cancelled
       THEN /\ pl_late' = pl_late \cup {"GetRepository"}
            /\ ReturnError
       ELSE /\ pc' = "repo_wait"
            /\ UNCHANGED <<pl_late, pl_ret>>
    /\ UNCHANGED <<pl_in, pl_up, pl_cancel, selVars, pl_status, aiVars, otherVars>>

\* GetRepository returns
ReturnRepository ==
    /\ pc = "repo_wait"
    /\ \E ok \in BOOLEAN :
          IF ok THEN pc' = "save" /\ UNCHANGED pl_ret
          ELSE ReturnError
    /\ UNCHANGED <<pl_in, pl_up, pl_cancel, pl_late, selVars, pl_status, aiVars, otherVars>>

\* the outcomes of a database call: it fails under a cancelled context
DbOutcomes == IF Cancelled THEN {FALSE} ELSE BOOLEAN

\* c.repositoryService.Create
SaveRepository ==
    /\ pc = "save"
    /\ \E ok \in DbOutcomes :
          IF ok THEN pc' = "create" /\ UNCHANGED pl_ret
          ELSE ReturnError
    /\ UNCHANGED <<pl_in, pl_up, pl_cancel, pl_late, selVars, pl_status, aiVars, otherVars>>

\* c.analysisService.Create
CreateAnalysis ==
    /\ pc = "create"
    /\ \E ok \in DbOutcomes :
          IF ok THEN pl_status' = StatusPending /\ pc' = "mark" /\ UNCHANGED pl_ret
          ELSE ReturnError /\ UNCHANGED pl_status
    /\ UNCHANGED <<pl_in, pl_up, pl_cancel, pl_late, selVars, aiVars, otherVars>>

\* c.analysisService.MarkProcessing; its error is only logged
MarkProcessing ==
    /\ pc = "mark"
    /\ pl_status' = IF Cancelled THEN pl_status ELSE StatusProcessing
    /\ pc' = "tree"
    /\ UNCHANGED <<pl_in, pl_up, pl_cancel, pl_late, selVars, aiVars, pl_ret, otherVars>>

\* GetRepositoryFiles is entered: maxFiles gets its default and
\* GetRepositoryTree is called
GetRepositoryTree ==
    /\ pc = "tree"
    /\ pl_maxFiles' = maxFilesOrDefault(pl_in.maxFiles)
    /\ IF Cancelled
       THEN /\ pl_late' = pl_late \cup {"GetRepositoryTree"}
            /\ pl_up' = CallFailed(CallMade(pl_up, "tree"), "tree")
            /\ pc' = "fail_fetch"
       ELSE /\ pl_up' = CallMade(pl_up, "tree")
            /\ pc' = "tree_wait"
            /\ UNCHANGED pl_late
    /\ UNCHANGED <<pl_in, pl_cancel, pl_queue, pl_files, pl_total, pl_skips,
                   pl_seen, pl_status, aiVars, pl_ret, otherVars>>

\* GetRepositoryTree returns: on success the candidates are scored and sorted
ReturnRepositoryTree ==
    /\ pc = "tree_wait"
    /\ \E ok \in BOOLEAN :
          IF ok
          THEN /\ \E pick \in DirPicks(pl_in.tree) :
                    pl_queue' \in sortSlice(scoreFiles(pl_in.tree, pick))
               /\ pl_files' = <<>>
               /\ pl_total' = 0
               /\ pl_seen' = <<>>
               /\ pc' = "loop"
               /\ UNCHANGED pl_up
          ELSE /\ pl_up' = CallFailed(pl_up, "tree")
               /\ pc' = "fail_fetch"
               /\ UNCHANGED <<pl_queue, pl_files, pl_total, pl_seen>>
    /\ UNCHANGED <<pl_in, pl_cancel, pl_late, pl_maxFiles, pl_skips,
                   pl_status, aiVars, pl_ret, otherVars>>

\* analysisService.Fail, then performAnalysis returns the error
FailAndReturn ==
    /\ pl_status' = IF Cancelled THEN pl_status ELSE StatusFailed
    /\ ReturnError

\* GetRepositoryFiles returned an error
FailFetch ==
    /\ pc = "fail_fetch"
    /\ FailAndReturn
    /\ UNCHANGED <<pl_in, pl_up, pl_cancel, pl_late, selVars, aiVars, otherVars>>

\* a candidate the loop has visited: whether GetFileContent was called for it
\* and whether it was appended to files
Seen(sf, fetched, kept) ==
    [path |-> sf.path, score |-> sf.score, fetched |-> fetched, kept |-> kept]

\* the turn of a loop that fetches a candidate whatever its tree size
SelectFileAnySize ==
    /\ pc = "loop"
    /\ IF \/ pl_queue = <<>>
          \/ FileLimitReached(pl_files, pl_maxFiles)
          \/ BudgetReached(pl_total)
       THEN pc' = "readme" /\ UNCHANGED <<pl_queue, pl_late, pl_seen>>
       ELSE IF Cancelled
       THEN /\ pl_late' = pl_late \cup {"GetFileContent"}
            /\ pl_queue' = Tail(pl_queue)
            /\ pl_seen' = Append(pl_seen, Seen(Head(pl_queue), TRUE, FALSE))
            /\ pc' = "loop"
       ELSE pc' = "fetch_wait" /\ UNCHANGED <<pl_queue, pl_late, pl_seen>>
    /\ UNCHANGED <<pl_in, pl_up, pl_cancel, pl_maxFiles, pl_files, pl_total, pl_skips,
                   pl_status, aiVars, pl_ret, otherVars>>

\* One turn of the selection loop, up to the call of GetFileContent: the loop
\* ends at the end of the candidates, at maxFiles files or at a total of
\* maxTotalSize; a candidate whose tree size is over the per-file limit is
\* passed over; so is one whose fetch fails.
SelectFile ==
    /\ pc = "loop"
    /\ IF \/ pl_queue = <<>>
          \/ FileLimitReached(pl_files, pl_maxFiles)
          \/ BudgetReached(pl_total)
       THEN pc' = "readme" /\ UNCHANGED <<pl_queue, pl_late, pl_seen>>
       ELSE IF fileSize(pl_in.tree, Head(pl_queue).path) > MaxFileSize
       THEN /\ pl_queue' = Tail(pl_queue)
            /\ pl_seen' = Append(pl_seen, Seen(Head(pl_queue), FALSE, FALSE))
            /\ pc' = "loop"
            /\ UNCHANGED pl_late
       ELSE IF Cancelled
       THEN /\ pl_late' = pl_late \cup {"GetFileContent"}
            /\ pl_queue' = Tail(pl_queue)
            /\ pl_seen' = Append(pl_seen, Seen(Head(pl_queue), TRUE, FALSE))
            /\ pc' = "loop"
       ELSE pc' = "fetch_wait" /\ UNCHANGED <<pl_queue, pl_late, pl_seen>>
    /\ UNCHANGED <<pl_in, pl_up, pl_cancel, pl_maxFiles, pl_files, pl_total, pl_skips,
                   pl_status, aiVars, pl_ret, otherVars>>

\* what a fetch of a file of tree size `size` can bring: an error, a content
\* that does not decode, a binary content, or a text of some length
FetchOutcomes(size) ==
    {[kind |-> "ok", len |-> size]}
    \cup (IF pl_skips < MaxSurprises
          THEN {[kind |-> "ok", len |-> n] : n \in OtherLengths}
          ELSE {})
    \cup (IF pl_skips < MaxSurprises \/ Cancelled \/ pl_files = <<>>
          THEN {[kind |-> k, len |-> 0] : k \in {"error", "undecodable", "binary"}}
          ELSE {})

\* the turn of a loop that gives up the selection on a file it cannot use
FileReturnedAbort(sf, size, out) ==
    /\ IF out.kind = "ok"
       THEN /\ pl_files' = Append(pl_files, FileContent(sf.path, sf.language, out.len))
            /\ pl_total' = pl_total + out.len
            /\ pl_queue' = Tail(pl_queue)
            /\ pc' = "loop"
       ELSE /\ pc' = "fail_fetch"
            /\ UNCHANGED <<pl_files, pl_total, pl_queue>>
    /\ pl_skips' = IF out.kind = "ok" /\ out.len = size THEN pl_skips
                   ELSE Min(pl_skips + 1, MaxSurprises)
    /\ pl_seen' = Append(pl_seen, Seen(sf, TRUE, out.kind = "ok"))

\* the rest of the turn: GetFileContent returns; a file that was fetched,
\* decoded and found to be text is appended and its length added to totalSize
FileReturned(sf, size, out) ==
    /\ IF out.kind = "ok"
       THEN /\ pl_files' = Append(pl_files, FileContent(sf.path, sf.language, out.len))
            /\ pl_total' = pl_total + out.len
       ELSE UNCHANGED <<pl_files, pl_total>>
    /\ pl_skips' = IF out.kind = "ok" /\ out.len = size THEN pl_skips
                   ELSE Min(pl_skips + 1, MaxSurprises)
    /\ pl_seen' = Append(pl_seen, Seen(sf, TRUE, out.kind = "ok"))
    /\ pl_queue' = Tail(pl_queue)
    /\ pc' = "loop"

ReturnFileContent ==
    /\ pc = "fetch_wait"
    /\ \E out \in FetchOutcomes(fileSize(pl_in.tree, Head(pl_queue).path)) :
          FileReturned(Head(pl_queue), fileSize(pl_in.tree, Head(pl_queue).path), out)
    /\ UNCHANGED <<pl_in, pl_up, pl_cancel, pl_late, pl_maxFiles, pl_status, aiVars,
                   pl_ret, otherVars>>

\* c.githubService.GetREADME is called; its error is ignored
GetREADME ==
    /\ pc = "readme"
    /\ IF Cancelled
       THEN pl_late' = pl_late \cup {"GetREADME"} /\ pc' = "store"
       ELSE pc' = "readme_wait" /\ UNCHANGED pl_late
    /\ UNCHANGED <<pl_in, pl_up, pl_cancel, selVars, pl_status, aiVars, pl_ret, otherVars>>

\* GetREADME returns
ReturnREADME ==
    /\ pc = "readme_wait"
    /\ pc' = "store"
    /\ UNCHANGED <<pl_in, pl_up, pl_cancel, pl_late, selVars, pl_status, aiVars, pl_ret,
                   otherVars>>

\* c.analysisService.UpdateGitHubData; its error is only logged
UpdateGitHubData ==
    /\ pc = "store"
    /\ pc' = "analyze"
    /\ UNCHANGED <<pl_in, pl_up, pl_cancel, pl_late, selVars, pl_status, aiVars, pl_ret,
                   otherVars>>

\* c.perplexityService.Analyze is called: it builds its request and hands it
\* to the HTTP client
CallAnalyze ==
    /\ pc = "analyze"
    /\ IF Cancelled
       THEN /\ pl_late' = pl_late \cup {"Analyze"}
            /\ pl_ai' = AnalyzeError
            /\ pl_up' = CallFailed(CallMade(pl_up, "completion"), "completion")
            /\ pc' = "fail_ai"
       ELSE /\ pl_up' = CallMade(pl_up, "completion")
            /\ pc' = "analyze_wait"
            /\ UNCHANGED <<pl_late, pl_ai>>
    /\ UNCHANGED <<pl_in, pl_cancel, selVars, pl_status, pl_resp, pl_ret, otherVars>>

\* performAnalysis going on to store a result although Analyze gave an error
AfterAnalyzeAbsorbing(ai) ==
    IF ai.outcome = "panic" THEN pl_ret' = "panic" /\ pc' = "done"
    ELSE pc' = "complete" /\ UNCHANGED pl_ret

\* where performAnalysis goes on with what Analyze gave
AfterAnalyze(ai) ==
    IF ai.outcome = "panic" THEN pl_ret' = "panic" /\ pc' = "done"
    ELSE IF ai.outcome = "error" THEN pc' = "fail_ai" /\ UNCHANGED pl_ret
    ELSE pc' = "complete" /\ UNCHANGED pl_ret

\* the provider answers and Analyze returns
ReturnAnalyze ==
    /\ pc = "analyze_wait"
    /\ \E resp \in Responses :
          /\ pl_resp' = resp
          /\ pl_ai' = Analyze(resp)
    /\ pl_up' = IF pl_resp'.failed \/ pl_resp'.status # 200
                 THEN CallFailed(pl_up, "completion")
                 ELSE pl_up
    /\ AfterAnalyze(pl_ai')
    /\ UNCHANGED <<pl_in, pl_cancel, pl_late, selVars, pl_status, otherVars>>

\* Analyze returned an error
FailAnalysis ==
    /\ pc = "fail_ai"
    /\ FailAndReturn
    /\ UNCHANGED <<pl_in, pl_up, pl_cancel, pl_late, selVars, aiVars, otherVars>>

\* c.analysisService.Complete; on its error performAnalysis returns it
Complete ==
    /\ pc = "complete"
    /\ \E ok \in DbOutcomes :
          IF ok THEN pl_status' = StatusCompleted /\ pc' = "quota" /\ UNCHANGED pl_ret
          ELSE ReturnError /\ UNCHANGED pl_status
    /\ UNCHANGED <<pl_in, pl_up, pl_cancel, pl_late, selVars, aiVars, otherVars>>

\* c.userService.UpdateAPIQuota (its error is only logged), then
\* performAnalysis returns the id of the analysis
UpdateAPIQuota ==
    /\ pc = "quota"
    /\ pl_ret' = "id"
    /\ pc' = "done"
    /\ UNCHANGED <<pl_in, pl_up, pl_cancel, pl_late, selVars, pl_status, aiVars, otherVars>>

\* the request context is cancelled (the client went away or a deadline
\* passed) while performAnalysis is at position pc
Cancel ==
    /\ pc \notin {"done"}
    /\ ~Cancelled
    /\ pl_cancel' = pc
    /\ UNCHANGED <<pc, pl_in, pl_up, pl_late, selVars, pl_status, aiVars, pl_ret, otherVars>>

Next ==
    \/ GetRepository \/ ReturnRepository \/ SaveRepository \/ CreateAnalysis
    \/ MarkProcessing \/ GetRepositoryTree \/ ReturnRepositoryTree \/ FailFetch
    \/ SelectFile \/ ReturnFileContent \/ GetREADME \/ ReturnREADME
    \/ UpdateGitHubData \/ CallAnalyze \/ ReturnAnalyze \/ FailAnalysis
    \/ Complete \/ UpdateAPIQuota \/ Cancel

Spec == Init /\ [][Next]_vars

---------------------------------------------------------------------------
(* The claims about the pipeline.                                          *)

\* the cumulative content length of a file list
RECURSIVE TotalLength(_)
TotalLength(files) ==
    IF files = <<>> THEN 0 ELSE Head(files).Size + TotalLength(Tail(files))

\* GetRepositoryFiles has returned its files
Selected == pc \in {"readme", "readme_wait", "store", "analyze", "analyze_wait",
                    "fail_ai", "complete", "quota", "done"}

\* C1: the cumulative content length of the files GetRepositoryFiles returns
\* never exceeds maxTotalSize (500000), whatever the tree, the provider and
\* the requested maxFiles.
C1_TotalWithinBudget ==
    Selected => TotalLength(pl_files) <= 500000

\* a completion answer of status 200 and valid JSON with no choice, or with
\* an empty text in its first choice
EmptyCompletion(resp) ==
    /\ ~resp.failed
    /\ resp.status = 200
    /\ resp.valid
    /\ (resp.choices = <<>> \/ resp.choices[1] = "")

\* C6: when the provider returns zero choices, or a choice whose text is
\* empty, Analyze returns an error and no AnalysisResult.
C6_EmptyCompletionIsError ==
    (pl_ai.outcome # "none" /\ EmptyCompletion(pl_resp)) => pl_ai.outcome = "error"

\* the positions of tree discovery, file selection and the completion call
CancelStages == {"tree", "tree_wait", "loop", "fetch_wait", "analyze", "analyze_wait"}

\* C8: if the context is cancelled during tree discovery, file selection or
\* the completion call, performAnalysis ends by returning an error and the
\* analysis is never stored as completed.
C8_CancelEndsWithError ==
    pl_cancel \in CancelStages =>
        /\ pl_status # StatusCompleted
        /\ pc = "done" => pl_ret = "error"

\* C9: once the context is cancelled the pipeline starts no further network
\* call: no content fetch, no README fetch, no completion call.
C9_NoCallAfterCancel ==
    pl_late = {}

\* C10: GetRepositoryFiles returns at most maxFiles files, a requested
\* maxFiles <= 0 counting as 15.
C10_AtMostMaxFiles ==
    Len(pl_files) <= (IF pl_in.maxFiles <= 0 THEN 15 ELSE pl_in.maxFiles)

\* the selection ended at the default limit of 15 files with candidates left
C10_Witness ==
    /\ pc = "readme"
    /\ pl_in.maxFiles <= 0
    /\ Len(pl_files) = 15
    /\ pl_queue # <<>>

\* C11: every file GetRepositoryFiles returns has a content length of at most
\* 100000, whatever size the tree listing reported for it and whatever
\* content the provider returned.
C11_EachFileWithinLimit ==
    \A i \in 1..Len(pl_files) : pl_files[i].Size <= 100000

\* the position of a path in the tree listing
TreeIndex(tree, path) == MinOf({i \in 1..Len(tree) : tree[i].path = path})

\* C12: the sort by score is stable: candidates of equal score are processed,
\* and so returned, in the order the tree listing gave them.
C12_EqualScoresInTreeOrder ==
    \A i, j \in 1..Len(pl_queue) :
        (i < j /\ pl_queue[i].score = pl_queue[j].score)
            => TreeIndex(pl_in.tree, pl_queue[i].path)
                   < TreeIndex(pl_in.tree, pl_queue[j].path)

\* C13: two evaluations of calculateFileScore on one path return the same
\* score and category.
C13_SameScoreAgain ==
    pc = "rescored" => sc_again = sc_out.result

\* C14: parseIssues calls the fallback parser exactly when the structured
\* parser found nothing, so its findings are those of the structured parser
\* alone or those of the fallback parser alone.
C14_FallbackIffPrimaryEmpty ==
    (pc = "parsed" /\ ~pr_out.panic) =>
        /\ pr_out.fallback <=> pr_out.primary = <<>>
        /\ pr_out.primary # <<>> => pr_out.issues = pr_out.primary
        /\ pr_out.primary = <<>> => pr_out.issues = parseIssuesSimple(pr_text)

\* the structured parser found an entry in a text where the fallback parser
\* would find remarks as well
C14_Witness ==
    /\ pc = "parsed"
    /\ ~pr_out.panic
    /\ pr_out.primary # <<>>
    /\ parseIssuesSimple(pr_text) # <<>>
    /\ pr_out.issues = pr_out.primary

\* the number of findings of sm_issues that have the severity
SeverityCount(severity) ==
    Cardinality({i \in 1..Len(sm_issues) : sm_issues[i].Severity = severity})

\* the findings of scenario E: HIGH, HIGH, MEDIUM, LOW
ScenarioE ==
    [i \in 1..Len(sm_issues) |-> sm_issues[i].Severity] = <<"HIGH", "HIGH", "MEDIUM", "LOW">>

\* C15: buildSummary sets overallScore to
\* max(0, 100 - 10*#HIGH - 5*#MEDIUM - 3*#LOW - #INFO), a value of 0..100;
\* the findings HIGH, HIGH, MEDIUM, LOW give the counts HIGH 2, MEDIUM 1,
\* LOW 1 and the score 72.
C15_OverallScoreFormula ==
    pc \in {"summarized", "resummarized"} =>
        /\ sm_out.OverallScore =
               Max(0, 100 - 10 * SeverityCount("HIGH") - 5 * SeverityCount("MEDIUM")
                          - 3 * SeverityCount("LOW") - SeverityCount("INFO"))
        /\ sm_out.OverallScore \in 0..100
        /\ ScenarioE =>
              /\ sm_out.IssuesBySeverity = [HIGH |-> 2, MEDIUM |-> 1, LOW |-> 1]
              /\ sm_out.OverallScore = 72

\* the summary of scenario E, and so a score of 72, has been built
C15_Witness ==
    /\ pc = "summarized"
    /\ ScenarioE
    /\ sm_out.OverallScore = 72

\* neither parser finds anything in the text
NoFindingsIn(text) ==
    /\ ~parsePrimary(text).panic
    /\ parsePrimary(text).issues = <<>>
    /\ parseIssuesSimple(text) = <<>>

\* the first choices of the answers the provider can give
FirstChoices == {resp.choices[1] : resp \in {r \in Responses : r.choices # <<>>}}

\* the non-empty completion texts in which neither parser finds anything
ShortfallTexts == {text \in FirstChoices : text # "" /\ NoFindingsIn(text)}

\* a completion answer of status 200 and valid JSON whose first choice is a
\* non-empty text in which neither parser finds anything
ParseShortfall(resp) ==
    /\ ~resp.failed
    /\ resp.status = 200
    /\ resp.valid
    /\ resp.choices # <<>>
    /\ resp.choices[1] \in ShortfallTexts

\* C16: a non-empty completion text in which both parsers find nothing is no
\* error: Analyze returns a result with no findings, totalFindings 0, empty
\* counts by severity and category, overallScore 100 and no topFindings.
C16_ShortfallSucceeds ==
    (pl_ai.outcome # "none" /\ ParseShortfall(pl_resp)) =>
        /\ pl_ai.outcome = "result"
        /\ pl_ai.Issues = <<>>
        /\ pl_ai.Summary.TotalIssues = 0
        /\ DOMAIN pl_ai.Summary.IssuesBySeverity = {}
        /\ DOMAIN pl_ai.Summary.IssuesByCategory = {}
        /\ pl_ai.Summary.OverallScore = 100
        /\ pl_ai.Summary.KeyFindings = <<>>

\* Analyze has returned for the text "The code looks fine."
C16_Witness ==
    /\ pl_ai.outcome = "result"
    /\ ParseShortfall(pl_resp)
    /\ pl_resp.choices[1] = "The code looks fine."
    /\ pl_ai.RawAnalysis = "The code looks fine."

\* files is `before` with at most one file appended, which has the path
Collected(before, files, path) ==
    \/ files = before
    \/ /\ Len(files) = Len(before) + 1
       /\ SubSeq(files, 1, Len(before)) = before
       /\ files[Len(files)].Path = path

\* a step of the selection loop: it stays in the loop or returns the files,
\* no error is returned and the analysis is not marked failed; a turn that
\* tried a candidate goes on with the remaining candidates, the collected
\* files unchanged or extended by that candidate
SelectionStep ==
    pc \in {"loop", "fetch_wait"} =>
        /\ pc' \in {"loop", "fetch_wait", "readme"}
        /\ pl_ret' = NoValue
        /\ pl_status' = StatusProcessing
        /\ (pc = "fetch_wait" /\ pc' = "loop") =>
              /\ pl_queue' = Tail(pl_queue)
              /\ Collected(pl_files, pl_files', Head(pl_queue).path)
        /\ pc' = "readme" => pl_files' = pl_files

C18_UpstreamFailurePropagates ==
    /\ pl_up.tree <= 1
    /\ pl_up.completion <= 1
    /\ "tree" \in pl_up.failed =>
          /\ pl_up.tree = 1
          /\ pl_up.completion = 0
          /\ pl_ai.outcome = "none"
          /\ pc \in {"fail_fetch", "done"}
          /\ pl_status # StatusCompleted
          /\ pc = "done" => pl_ret = "error"
    /\ "completion" \in pl_up.failed =>
          /\ pl_up.completion = 1
          /\ pl_ai.outcome = "error"
          /\ pc \in {"fail_ai", "done"}
          /\ pl_status # StatusCompleted
          /\ pc = "done" => pl_ret = "error"

\* the completion provider refused the one call made to it, on a context that
\* was never cancelled, and performAnalysis has returned the error
C18_Witness ==
    /\ pc = "done"
    /\ ~Cancelled
    /\ "completion" \in pl_up.failed
    /\ pl_resp.status = 429
    /\ pl_up.completion = 1
    /\ pl_ret = "error"

\* C19: every finding parseIssues returns, from the structured or the
\* fallback parser, has one of the four severities and one of the five
\* categories, so the summary counts by severity under those four keys only.
C19_SeverityAndCategoryInRange ==
    (pc = "parsed" /\ ~pr_out.panic) =>
        /\ \A i \in 1..Len(pr_out.issues) :
              /\ pr_out.issues[i].Severity \in {"HIGH", "MEDIUM", "LOW", "INFO"}
              /\ pr_out.issues[i].Category
                     \in {"bug", "security", "performance", "quality", "style"}
        /\ DOMAIN buildSummary(pr_out.issues, pr_text).IssuesBySeverity
               \subseteq {"HIGH", "MEDIUM", "LOW", "INFO"}

\* the fallback parser has produced findings of three severities and four
\* categories from free-form remarks
C19_Witness ==
    /\ pc = "parsed"
    /\ ~pr_out.panic
    /\ pr_out.fallback
    /\ {pr_out.issues[i].Severity : i \in 1..Len(pr_out.issues)} = {"HIGH", "MEDIUM", "LOW"}
    /\ {pr_out.issues[i].Category : i \in 1..Len(pr_out.issues)}
           = {"bug", "security", "performance", "quality"}

\* the manifest and configuration file names
ManifestNames ==
    {"go.mod", "go.sum", "package.json", "Cargo.toml", "requirements.txt",
     "pyproject.toml", "Dockerfile", "docker-compose.yml", "Makefile",
     ".env.example", "config.yaml", "config.json", "tsconfig.json"}

\* the base name of the path is a manifest name, whatever the case of letters
IsManifest(path) == \E n \in ManifestNames : ToLower(Base(path)) = ToLower(n)

\* C20: a blob whose base name is a manifest or configuration file name and
\* which is not under a vendor directory is scored (90, config) and is handed
\* to the selector as a candidate.
C20_ManifestIsCandidate ==
    (pc \in {"scored", "rescored"} /\ IsManifest(sc_path) /\ ~HasVendorSegment(sc_path)) =>
        /\ sc_out.result = [score |-> 90, category |-> "config"]
        /\ Len(sc_out.candidates) = 1
        /\ sc_out.candidates[1].path = sc_path
        /\ sc_out.candidates[1].score = 90
        /\ sc_out.candidates[1].category = "config"

\* the important-directory names found anywhere in the lower-cased path
NamesInPath(path) == {d \in DOMAIN importantDirs : Contains(ToLower(path), d)}

\* those of them no other one exceeds in length
LongestNames(names) == {d \in names : \A e \in names : Len(d) >= Len(e)}

\* C21: for a file that is no entry point and no config file the base score
\* is the value of the longest important-directory name found in the path,
\* and 0 when no name is found.
C21_LongestDirectoryWins ==
    (/\ pc \in {"scored", "rescored"}
     /\ ToLower(Base(sc_path)) \notin entryPoints
     /\ ToLower(Base(sc_path)) \notin configFiles) =>
        IF NamesInPath(sc_path) = {} THEN sc_out.dirScore = 0
        ELSE sc_out.dirScore
                 \in {importantDirs[d] : d \in LongestNames(NamesInPath(sc_path))}

---------------------------------------------------------------------------
(* The structure summary and the prompt: services/github.go,               *)
(* buildCodeStructure; services/ai_analyzer.go, buildPrompt.               *)

\* m[key]++ on a Go map[string]int
Increment(m, key) ==
    IF key \in DOMAIN m THEN [m EXCEPT ![key] = @ + 1] ELSE m @@ (key :> 1)

\* the blob branch of the loop of buildCodeStructure
AddBlob(structure, entry, lang) ==
    [structure EXCEPT
        !.Files = Append(@, entry.path),
        !.TotalFiles = @ + 1,
        !.TotalSize = @ + entry.size,
        !.LanguageBreakdown = IF lang = "" THEN @ ELSE Increment(@, lang)]

\* one turn of the loop of buildCodeStructure
AddEntry(structure, entry) ==
    IF entry.type = "tree"
    THEN [structure EXCEPT !.Directories = Append(@, entry.path)]
    ELSE IF entry.type = "blob"
    THEN AddBlob(structure, entry, detectLanguage(entry.path))
    ELSE structure

RECURSIVE StructureFrom(_, _)
StructureFrom(entries, structure) ==
    IF entries = <<>> THEN structure
    ELSE StructureFrom(Tail(entries), AddEntry(structure, Head(entries)))

\* buildCodeStructure counting every entry of the tree as a file
buildCodeStructureEveryEntry(tree) ==
    [StructureFrom(tree, [TotalFiles |-> 0, TotalSize |-> 0, Directories |-> <<>>,
                          Files |-> <<>>, LanguageBreakdown |-> <<>>])
        EXCEPT !.TotalFiles = Len(tree)]

\* buildCodeStructure(tree)
buildCodeStructure(tree) ==
    StructureFrom(tree, [TotalFiles |-> 0, TotalSize |-> 0, Directories |-> <<>>,
                         Files |-> <<>>, LanguageBreakdown |-> <<>>])

importantNames ==
    {"cmd", "internal", "pkg", "src", "lib", "api", "handlers", "controllers",
     "services", "models", "routes", "middleware", "config", "utils", "helpers",
     "core", "app", "server"}

\* strings.Split(dir, "/")[0]
FirstPart(dir) ==
    IF Index(dir, "/") = 0 THEN dir ELSE SubSeq(dir, 1, Index(dir, "/") - 1)

RECURSIVE filterImportantDirs(_)
filterImportantDirs(dirs) ==
    IF dirs = <<>> THEN <<>>
    ELSE (IF FirstPart(Head(dirs)) \in importantNames THEN <<Head(dirs)>> ELSE <<>>)
         \o filterImportantDirs(Tail(dirs))

languageTags ==
    ("Go" :> "go") @@ ("Python" :> "python") @@ ("JavaScript" :> "javascript") @@
    ("TypeScript" :> "typescript") @@ ("React" :> "jsx") @@
    ("React TypeScript" :> "tsx") @@ ("Rust" :> "rust") @@ ("Java" :> "java") @@
    ("C" :> "c") @@ ("C++" :> "cpp") @@ ("Ruby" :> "ruby") @@ ("PHP" :> "php") @@
    ("SQL" :> "sql") @@ ("Shell" :> "bash") @@ ("YAML" :> "yaml") @@
    ("JSON" :> "json")

getLanguageTag(language) ==
    IF language \in DOMAIN languageTags THEN languageTags[language] ELSE ""

\* the orders in which a range over a Go map can yield its keys: any order
RECURSIVE KeyOrders(_)
KeyOrders(keys) ==
    IF keys = {} THEN {<<>>}
    ELSE UNION {{<<k>> \o rest : rest \in KeyOrders(keys \ {k})} : k \in keys}

\* the repository header and the repository information
HeaderText(input) ==
    "# Repository Analysis: " \o input.RepoOwner \o "/" \o input.RepoName \o "\n\n"
    \o "## Repository Information\n"
    \o "- **Name**: " \o input.RepoName \o "\n"
    \o "- **Primary Language**: " \o input.PrimaryLanguage \o "\n"
    \o (IF input.Description # "" THEN "- **Description**: " \o input.Description \o "\n"
        ELSE "")
    \o "\n"

\* the lines of the range over LanguageBreakdown, which yields the keys in order
RECURSIVE LanguageLines(_, _)
LanguageLines(breakdown, order) ==
    IF order = <<>> THEN ""
    ELSE "  - " \o Head(order) \o ": " \o ToString(breakdown[Head(order)]) \o " files\n"
         \o LanguageLines(breakdown, Tail(order))

\* the key directories, at most ten of them
KeyDirectories(dirs) ==
    Join(IF Len(dirs) > 10 THEN SubSeq(dirs, 1, 10) ELSE dirs, ", ")

\* the project structure; a nil CodeStructure is the record [nil |-> TRUE]
StructureText(structure, order) ==
    IF structure = [nil |-> TRUE] THEN ""
    ELSE "## Project Structure\n"
         \o "- **Total Files**: " \o ToString(structure.TotalFiles) \o "\n"
         \o "- **Total Size**: " \o ToString(structure.TotalSize) \o " bytes\n"
         \o (IF DOMAIN structure.LanguageBreakdown # {}
             THEN "- **Languages**:\n" \o LanguageLines(structure.LanguageBreakdown, order)
             ELSE "")
         \o (IF Len(structure.Directories) > 0
             THEN "- **Key Directories**: "
                  \o KeyDirectories(filterImportantDirs(structure.Directories)) \o "\n"
             ELSE "")
         \o "\n"

\* the code fence of three backquotes, a character a string of this notation
\* cannot hold, written with tildes
Fence == "~~~"

\* the README, cut at 2000 bytes
ReadmeText(readme) ==
    IF readme = "" THEN ""
    ELSE "## README\n" \o Fence \o "\n"
         \o (IF Len(readme) > 2000 THEN SubSeq(readme, 1, 2000) \o "\n... (truncated)"
             ELSE readme)
         \o "\n" \o Fence \o "\n\n"

\* one source file, its content cut at 15000 bytes
FileText(file) ==
    "### " \o file.Path \o "\n"
    \o "**Language**: " \o file.Language \o " | **Size**: " \o ToString(file.Size)
    \o " bytes\n"
    \o Fence \o getLanguageTag(file.Language) \o "\n"
    \o (IF Len(file.Content) > 15000
        THEN SubSeq(file.Content, 1, 15000) \o "\n// ... (file truncated for analysis)"
        ELSE file.Content)
    \o "\n" \o Fence \o "\n\n"

RECURSIVE FileTexts(_)
FileTexts(files) ==
    IF files = <<>> THEN "" ELSE FileText(Head(files)) \o FileTexts(Tail(files))

FilesText(files) ==
    IF Len(files) > 0
    THEN "## Source Code Files\n\n"
         \o "Analyze the following source code files for bugs, security issues, and improvements:\n\n"
         \o FileTexts(files)
    ELSE ""

RequestText ==
    "---\n\n## Analysis Request\n\n"
    \o "Please analyze this codebase thoroughly and provide:\n\n"
    \o "1. **OVERVIEW**: General assessment of code quality, architecture, and patterns used\n"
    \o "2. **ISSUES**: Specific bugs, security vulnerabilities, and problems found (use the format specified)\n"
    \o "3. **SUMMARY**: Count of issues by severity (HIGH/MEDIUM/LOW/INFO)\n"
    \o "4. **RECOMMENDATIONS**: Top 3-5 priority improvements\n\n"
    \o "Focus on actionable, specific issues with file paths and line numbers where possible.\n"

\* buildPrompt(input), order being the order in which the range over
\* LanguageBreakdown yields the languages
buildPrompt(input, order) ==
    HeaderText(input) \o StructureText(input.CodeStructure, order)
    \o ReadmeText(input.README) \o FilesText(input.CodeFiles) \o RequestText

---------------------------------------------------------------------------
(* buildCodeStructure and buildPrompt applied to a tree, twice each.       *)

\* s repeated n times
RECURSIVE Repeat(_, _)
Repeat(s, n) ==
    IF n = 0 THEN ""
    ELSE IF n = 1 THEN s
    ELSE Repeat(s, n \div 2) \o Repeat(s, n - n \div 2)

\* directories, files of three languages, a file of no language and a
\* submodule entry
MixedTree ==
    <<[path |-> "cmd", type |-> "tree", size |-> 0],
      Blob("cmd/main.go", 1200),
      [path |-> "docs", type |-> "tree", size |-> 0],
      Blob("docs/guide.md", 100),
      [path |-> "internal", type |-> "tree", size |-> 0],
      [path |-> "internal/api", type |-> "tree", size |-> 0],
      Blob("internal/api/user.go", 800),
      Blob("scripts/run.py", 300),
      [path |-> "third_party/lib", type |-> "commit", size |-> 0],
      Blob("web/app.ts", 500)>>

PromptTrees == {<<>>, SmallTree, BudgetTree, MixedTree}

ReadmePool == {"", "# demo\nA demo service.", Repeat("0123456789", 200) \o "!"}

PromptFile(path, content) ==
    [Path |-> path, Content |-> content, Language |-> detectLanguage(path),
     Size |-> Len(content)]

FilesPool ==
    {<<>>,
     <<PromptFile("cmd/main.go", "package main\n")>>,
     <<PromptFile("cmd/main.go", "package main\n"),
       PromptFile("notes.txt", Repeat("0123456789", 1500) \o "!")>>}

PromptInputs ==
    [tree : PromptTrees, description : {"", "A small service"},
     readme : ReadmePool, files : FilesPool]

\* the AnalysisInput performAnalysis makes of the data it has gathered
AnalysisInput(in, structure) ==
    [RepoName |-> "demo", RepoOwner |-> "acme", Description |-> in.description,
     PrimaryLanguage |-> "Go", README |-> in.readme, CodeStructure |-> structure,
     CodeFiles |-> in.files]

InitPrompt ==
    /\ pc = "structure"
    /\ bp_in \in PromptInputs
    /\ cs_out = NoValue
    /\ cs_again = NoValue
    /\ bp_out = NoValue
    /\ bp_again = NoValue
    /\ ScoreIdle
    /\ SummaryIdle
    /\ ParseIdle
    /\ PipeIdle
    /\ QuotaIdle

notPromptVars == <<scoreVars, summaryVars, parseVars, pipeVars, quotaVars>>

BuildCodeStructure ==
    /\ pc = "structure"
    /\ cs_out' = buildCodeStructure(bp_in.tree)
    /\ pc' = "structured"
    /\ UNCHANGED <<bp_in, cs_again, bp_out, bp_again, notPromptVars>>

\* the structure is built from the same tree once more
BuildCodeStructureAgain ==
    /\ pc = "structured"
    /\ cs_again' = buildCodeStructure(bp_in.tree)
    /\ pc' = "restructured"
    /\ UNCHANGED <<bp_in, cs_out, bp_out, bp_again, notPromptVars>>

BuildPrompt ==
    /\ pc = "restructured"
    /\ \E order \in KeyOrders(DOMAIN cs_out.LanguageBreakdown) :
          bp_out' = buildPrompt(AnalysisInput(bp_in, cs_out), order)
    /\ pc' = "prompted"
    /\ UNCHANGED <<bp_in, cs_out, cs_again, bp_again, notPromptVars>>

\* buildPrompt is called on the same input once more
BuildPromptAgain ==
    /\ pc = "prompted"
    /\ \E order \in KeyOrders(DOMAIN cs_out.LanguageBreakdown) :
          bp_again' = buildPrompt(AnalysisInput(bp_in, cs_out), order)
    /\ pc' = "reprompted"
    /\ UNCHANGED <<bp_in, cs_out, cs_again, bp_out, notPromptVars>>

NextPrompt ==
    BuildCodeStructure \/ BuildCodeStructureAgain \/ BuildPrompt \/ BuildPromptAgain

SpecPrompt == InitPrompt /\ [][NextPrompt]_vars

\* the sections that are present stand in the order header, structure,
\* README, files, request
SectionsInOrder(prompt, input) ==
    /\ Index(prompt, "# Repository Analysis: ") = 1
    /\ Index(prompt, "## Repository Information\n") < Index(prompt, "## Project Structure\n")
    /\ input.readme # "" =>
          /\ Index(prompt, "## Project Structure\n") < Index(prompt, "## README\n")
          /\ Index(prompt, "## README\n") < Index(prompt, "## Analysis Request\n")
    /\ input.files # <<>> =>
          /\ Index(prompt, "## Project Structure\n") < Index(prompt, "## Source Code Files\n")
          /\ Index(prompt, "## README\n") < Index(prompt, "## Source Code Files\n")
          /\ Index(prompt, "## Source Code Files\n") < Index(prompt, "## Analysis Request\n")
    /\ Index(prompt, "## Project Structure\n") < Index(prompt, "## Analysis Request\n")

\* C22: two calls of buildPrompt with the same AnalysisInput return identical
\* strings, whose sections stand in the fixed order repository header,
\* structure summary, README, selected files, analysis request.
C22_SamePromptAgain ==
    pc = "reprompted" =>
        /\ bp_again = bp_out
        /\ SectionsInOrder(bp_out, bp_in)

\* the positions of the HIGH and MEDIUM findings of a list
ImportantAt(issues) ==
    {i \in 1..Len(issues) : issues[i].Severity \in {"HIGH", "MEDIUM"}}

\* C23: the key findings are exactly the titles of the first five HIGH or
\* MEDIUM findings in their original order, all of them when there are fewer
\* than five; no LOW or INFO finding appears and the length is at most 5.
C23_KeyFindingsFirstFive ==
    pc \in {"summarized", "resummarized"} =>
        /\ Len(sm_out.KeyFindings) <= 5
        /\ Len(sm_out.KeyFindings) =
              IF Cardinality(ImportantAt(sm_issues)) < 5
              THEN Cardinality(ImportantAt(sm_issues)) ELSE 5
        /\ \A k \in 1..Len(sm_out.KeyFindings) :
              \E i \in ImportantAt(sm_issues) :
                 /\ sm_out.KeyFindings[k] = sm_issues[i].Title
                 /\ Cardinality({j \in ImportantAt(sm_issues) : j < i}) = k - 1

\* more than five HIGH or MEDIUM findings, the list starting with a LOW or
\* INFO one, and five key findings kept
C23_Witness ==
    /\ pc = "resummarized"
    /\ Cardinality(ImportantAt(sm_issues)) > 5
    /\ sm_issues[1].Severity \in {"LOW", "INFO"}
    /\ Len(sm_out.KeyFindings) = 5

\* the positions of the entries of one type
EntriesAt(tree, type) == {i \in 1..Len(tree) : tree[i].type = type}

\* the sum of the sizes of the entries at the positions
RECURSIVE SizeSum(_, _)
SizeSum(tree, positions) ==
    IF positions = {} THEN 0
    ELSE LET i == CHOOSE p \in positions : TRUE
         IN  tree[i].size + SizeSum(tree, positions \ {i})

\* C24: built twice from the same tree the structure is the same; its
\* TotalFiles is the number of blob entries, its TotalSize the sum of their
\* sizes, its directories are the tree entries, and the count of each language
\* is the number of blobs of that language.
C24_StructureOfTheTree ==
    pc \in {"restructured", "prompted", "reprompted"} =>
        /\ cs_again = cs_out
        /\ cs_out.TotalFiles = Cardinality(EntriesAt(bp_in.tree, "blob"))
        /\ cs_out.TotalSize = SizeSum(bp_in.tree, EntriesAt(bp_in.tree, "blob"))
        /\ Len(cs_out.Directories) = Cardinality(EntriesAt(bp_in.tree, "tree"))
        /\ \A i \in EntriesAt(bp_in.tree, "tree") :
              cs_out.Directories[Cardinality({j \in EntriesAt(bp_in.tree, "tree") : j <= i})]
                 = bp_in.tree[i].path
        /\ DOMAIN cs_out.LanguageBreakdown =
              {detectLanguage(bp_in.tree[i].path) : i \in EntriesAt(bp_in.tree, "blob")} \ {""}
        /\ \A lang \in DOMAIN cs_out.LanguageBreakdown :
              cs_out.LanguageBreakdown[lang] =
                 Cardinality({i \in EntriesAt(bp_in.tree, "blob") :
                                detectLanguage(bp_in.tree[i].path) = lang})

\* a tree of directories, blobs of several languages and a submodule entry,
\* its structure built twice
C24_Witness ==
    /\ pc = "restructured"
    /\ EntriesAt(bp_in.tree, "tree") # {}
    /\ EntriesAt(bp_in.tree, "commit") # {}
    /\ Cardinality(DOMAIN cs_again.LanguageBreakdown) >= 2
    /\ cs_again.TotalFiles = 5

\* the candidates the loop has appended to files, in the order of the visits
RECURSIVE KeptOf(_)
KeptOf(seen) ==
    IF seen = <<>> THEN <<>>
    ELSE (IF Head(seen).kept THEN <<Head(seen)>> ELSE <<>>) \o KeptOf(Tail(seen))

\* a candidate was passed over for a reason of its own: its tree size is over
\* the per-file limit and it was not fetched, or it was fetched and its
\* content could not be had, decoded or used
OwnReason(c) ==
    /\ ~c.kept
    /\ \/ ~c.fetched /\ fileSize(pl_in.tree, c.path) > MaxFileSize
       \/ c.fetched

\* the files are the candidates kept, in non-increasing order of score
KeptInOrder(kept, files) ==
    /\ Len(kept) = Len(files)
    /\ \A k \in 1..Len(files) : kept[k].path = files[k].Path
    /\ \A k \in 1..(Len(files) - 1) : kept[k].score >= kept[k + 1].score

\* no candidate left unvisited scores more than `lowest`, and every visited
\* candidate that is absent and scores more was passed over for its own reason
HigherAbsentHaveReason(seen, queue, lowest) ==
    /\ \A c \in 1..Len(queue) : queue[c].score <= lowest
    /\ \A c \in 1..Len(seen) :
          (~seen[c].kept /\ seen[c].score > lowest) => OwnReason(seen[c])

\* C25: the selected files stand in non-increasing order of score, and a
\* candidate that is absent while one of strictly lower score is present was
\* passed over for a reason of its own, not for the number of files or the
\* total size.
C25_HigherScoresFirst ==
    (Selected /\ pl_files # <<>>) =>
        /\ KeptInOrder(KeptOf(pl_seen), pl_files)
        /\ \E k \in 1..Len(pl_seen) :
              /\ pl_seen[k].kept
              /\ \A j \in 1..Len(pl_seen) : pl_seen[j].kept => pl_seen[j].score >= pl_seen[k].score
              /\ HigherAbsentHaveReason(pl_seen, pl_queue, pl_seen[k].score)

\* a selection in which a candidate over the per-file limit and one whose
\* fetch brought nothing usable are absent while a file of strictly lower
\* score is present
C25_Witness ==
    /\ pc = "readme"
    /\ \E a, b, k \in 1..Len(pl_seen) :
          /\ pl_seen[k].kept
          /\ ~pl_seen[a].kept /\ ~pl_seen[a].fetched /\ pl_seen[a].score > pl_seen[k].score
          /\ ~pl_seen[b].kept /\ pl_seen[b].fetched /\ pl_seen[b].score > pl_seen[k].score

\* the candidate visited by a step that lengthens the record of visits
Visited == pl_seen'[Len(pl_seen')]

\* C26 for one step: a candidate over the per-file limit is passed over
\* without a fetch and is not kept, cut or not; a candidate passed over leaves
\* files and totalSize as they were; totalSize is the sum of the lengths of
\* the files
SkipStep ==
    /\ pl_total' = TotalLength(pl_files')
    /\ Len(pl_seen') = Len(pl_seen) + 1 =>
          /\ fileSize(pl_in.tree, Visited.path) > MaxFileSize =>
                ~Visited.fetched /\ ~Visited.kept /\ pc # "fetch_wait"
          /\ ~Visited.kept => pl_files' = pl_files /\ pl_total' = pl_total
          /\ Visited.kept =>
                /\ Len(pl_files') = Len(pl_files) + 1
                /\ pl_files'[Len(pl_files')].Path = Visited.path
                /\ pl_total' = pl_total + pl_files'[Len(pl_files')].Size

\* C26: passing a candidate over leaves the selection as it was: a candidate
\* over the per-file limit is passed over without a fetch and without being
\* cut to size, every candidate passed over leaves the collected files and the
\* running total unchanged, and the running total always equals the sum of the
\* lengths of the collected files.
C26_SkipsChangeNothing == [][SkipStep]_vars

\* after files were collected a candidate over the per-file limit and one
\* whose fetch brought nothing usable were passed over
C26_Witness ==
    /\ pl_total > 0
    /\ pl_total = TotalLength(pl_files)
    /\ \E a, b, k \in 1..Len(pl_seen) :
          /\ k < a /\ k < b
          /\ pl_seen[k].kept
          /\ ~pl_seen[a].kept /\ ~pl_seen[a].fetched
          /\ ~pl_seen[b].kept /\ pl_seen[b].fetched

---------------------------------------------------------------------------
(* parseIssues applied to texts whose first marker line may lack its title *)
(* and whose body may lack its fields.                                     *)

\* what follows the marker on its line
MarkerTitles == {"", "  ", "Open redirect"}

\* a marker line, then the File, Description and Suggestion lines the shape
\* has, then a well-formed entry when shape.follow
MarkerShapes ==
    [marker : {"[HIGH/security]", "[INFO/style]"}, title : MarkerTitles,
     file : BOOLEAN, description : BOOLEAN, suggestion : BOOLEAN,
     follow : BOOLEAN, finalNewline : BOOLEAN]

MarkerLines(shape) ==
    <<"## ISSUES", shape.marker \o shape.title>>
    \o (IF shape.file THEN <<"File: web/login.go:12">> ELSE <<>>)
    \o (IF shape.description THEN <<"Description: target is not checked">> ELSE <<>>)
    \o (IF shape.suggestion THEN <<"Suggestion: allow known hosts only">> ELSE <<>>)
    \o (IF shape.follow
        THEN <<"[LOW/performance] Query in a loop", "File: app.py:7",
               "Description: one query per row", "Suggestion: batch the reads">>
        ELSE <<>>)

RenderMarker(shape) ==
    Join(MarkerLines(shape), "\n") \o (IF shape.finalNewline THEN "\n" ELSE "")

InitMarker ==
    /\ pc = "parse"
    /\ pr_shape \in MarkerShapes
    /\ pr_text = RenderMarker(pr_shape)
    /\ pr_out = NoValue
    /\ ScoreIdle
    /\ SummaryIdle
    /\ PipeIdle
    /\ PromptIdle
    /\ QuotaIdle

SpecMarker == InitMarker /\ [][NextParse]_vars

\* the findings the structured parser made of the first marker of the text:
\* all but the finding of the entry that follows it
OfFirstMarker(shape, primary) ==
    IF shape.follow THEN SubSeq(primary, 1, Len(primary) - 1) ELSE primary

\* C27: every finding of the primary parser has a title and a description or
\* a suggestion, and a marker whose title is empty, or whose body has neither
\* a description nor a suggestion, produces no finding.
C27_BareMarkerDiscarded ==
    (pc = "parsed" /\ ~pr_out.panic) =>
        /\ \A k \in 1..Len(pr_out.primary) :
              /\ pr_out.primary[k].Title # ""
              /\ pr_out.primary[k].Description # "" \/ pr_out.primary[k].Suggestion # ""
        /\ (TrimSpace(pr_shape.title) = "" \/ (~pr_shape.description /\ ~pr_shape.suggestion))
              => OfFirstMarker(pr_shape, pr_out.primary) = <<>>

\* C28: parseIssues is total: for every completion text, those with fewer
\* than ten characters from the start of the "## ISSUES" header to the end of
\* the text included, it returns a list of findings and does not abort on an
\* index out of range.
C28_ParseIssuesTotal ==
    pc = "parsed" => (~pr_out.panic /\ Len(pr_out.issues) >= 0)

\* C29: whenever performAnalysis returns after it has created the analysis
\* record, the record is in a terminal status: completed if and only if
\* performAnalysis returned success, failed when it returned an error; no
\* record is left pending or processing.
C29_ReturnsWithTerminalStatus ==
    (pc = "done" /\ pl_status # NoAnalysis) =>
        /\ pl_status = StatusCompleted <=> pl_ret = "id"
        /\ pl_ret = "error" => pl_status = StatusFailed
        /\ pl_status \notin {StatusPending, StatusProcessing}

---------------------------------------------------------------------------
(* Concurrent calls of UserService.UpdateAPIQuota for one user:            *)
(* models/user.go. Each call reads the user, tests the quota on what it    *)
(* read and then adds its tokens with an UPDATE of its own; nothing holds  *)
(* the row between the read and the UPDATE.                                *)

\* how many calls run at once
MaxCalls == 2

\* the api_quota_limit of the user
MaxQuota == 3

\* the most tokens one call reports
MaxTokens == 2

\* a call that has not started: its tokensUsed, its position, the
\* api_quota_used it has read, what it returned and what it added
QuotaCall(tokensUsed) ==
    [tokensUsed |-> tokensUsed, at |-> "start", read |-> 0, result |-> "none", added |-> 0]

InitQuota ==
    /\ pc = "concurrent"
    /\ qt_limit = MaxQuota
    /\ qt_used \in 0..MaxQuota
    /\ qt_calls \in [1..MaxCalls -> {QuotaCall(n) : n \in 1..MaxTokens}]
    /\ ScoreIdle
    /\ SummaryIdle
    /\ ParseIdle
    /\ PipeIdle
    /\ PromptIdle

notQuotaVars == <<pc, scoreVars, summaryVars, parseVars, pipeVars, promptVars>>

\* user, err := s.ByID(ctx, userID); an error is returned as it is
ByID(i) ==
    /\ qt_calls[i].at = "start"
    /\ \E ok \in BOOLEAN :
          qt_calls' = [qt_calls EXCEPT ![i] =
                          IF ok THEN [@ EXCEPT !.at = "read", !.read = qt_used]
                          ELSE [@ EXCEPT !.at = "done", !.result = "error"]]
    /\ UNCHANGED <<qt_limit, qt_used, notQuotaVars>>

\* if user.APIQuotaUsed+tokensUsed > user.APIQuotaLimit { return error }
CheckQuota(i) ==
    /\ qt_calls[i].at = "read"
    /\ qt_calls' = [qt_calls EXCEPT ![i] =
                       IF @.read + @.tokensUsed > qt_limit
                       THEN [@ EXCEPT !.at = "done", !.result = "exceeded"]
                       ELSE [@ EXCEPT !.at = "update"]]
    /\ UNCHANGED <<qt_limit, qt_used, notQuotaVars>>

\* UPDATE users SET api_quota_used = api_quota_used + $1
ExecUpdate(i) ==
    /\ qt_calls[i].at = "update"
    /\ \E ok \in BOOLEAN :
          IF ok
          THEN /\ qt_used' = qt_used + qt_calls[i].tokensUsed
               /\ qt_calls' = [qt_calls EXCEPT ![i] =
                                  [@ EXCEPT !.at = "done", !.result = "ok",
                                            !.added = qt_calls[i].tokensUsed]]
          ELSE /\ qt_calls' = [qt_calls EXCEPT ![i] =
                                  [@ EXCEPT !.at = "done", !.result = "error"]]
               /\ UNCHANGED qt_used
    /\ UNCHANGED <<qt_limit, notQuotaVars>>

NextQuota ==
    \E i \in 1..MaxCalls : ByID(i) \/ CheckQuota(i) \/ ExecUpdate(i)

SpecQuota == InitQuota /\ [][NextQuota]_vars

\* C30: however concurrent calls of UpdateAPIQuota for one user interleave,
\* api_quota_used never exceeds api_quota_limit: a call that would push the
\* usage past the limit returns an error and adds nothing, and every call
\* that succeeds adds exactly its tokensUsed.
C30_QuotaNeverExceeded ==
    pc = "concurrent" =>
        /\ qt_used <= qt_limit
        /\ \A i \in 1..Len(qt_calls) :
              qt_calls[i].at = "done" =>
                 /\ qt_calls[i].result = "ok" => qt_calls[i].added = qt_calls[i].tokensUsed
                 /\ qt_calls[i].result # "ok" => qt_calls[i].added = 0

=============================================================================
